---------------------------- MODULE Spec2Model ----------------------------
(***************************************************************************)
(* A model of the webstir-backend build provider: Build calls running      *)
(* their phases (type-check, entry discovery, bundle, artifact collection, *)
(* manifest hydration, cache diff, severity filter) against the            *)
(* process-wide incremental bundle-session cache.                          *)
(*                                                                         *)
(* Every `await` of runEsbuild / disposeIncrementalBuild / runTypeCheck is *)
(* a step boundary: an action is the synchronous code between two awaits.  *)
(***************************************************************************)
EXTENDS Integers, Sequences, FiniteSets, TLC

(***************************************************************************)
(* Bounds of the model.                                                    *)
(***************************************************************************)
\* Build calls a serialized run starts over the life of the process.
MaxBuilds == 3

\* Build calls a run with overlapping calls starts.
MaxOverlapping == 2

\* The two call slots: at most two Build calls are in flight at once.
Calls == {"a", "b"}

\* BackendBuildMode (src/src/workspace.ts).
Modes == {"build", "publish", "test"}

\* Build roots of the workspaces built by this process.
Roots == {"/ws/build/backend"}

None == "none"

(***************************************************************************)
(* Program state.                                                          *)
(***************************************************************************)
VARIABLES
    cache,        \* incrementalBuildCache: a Map, kept in insertion order
    sessions,     \* every bundle session ever created: id -> "live" |
                  \* "disposed" | "dispose-threw" (dispose() called; it threw)
    exited,       \* the process 'exit' event has been emitted
    outputsFile,  \* .webstir/backend-outputs.json (<<>>: absent)
    digestFile,   \* .webstir/backend-manifest-digest.json (<<>>: absent)
    builds,       \* number of Build calls started so far
    call,         \* per call slot: position, options, locals, diagnostics
    last,         \* history: the Build call that finished last
    fn            \* scratch state of the pure-function specifications

vars == <<cache, sessions, exited, outputsFile, digestFile, builds, call, last, fn>>



(***************************************************************************)
(* Entry points and the entry signature.                                   *)
(*                                                                         *)
(* An entry path is written as its rank in the lexicographic order of the  *)
(* paths: 1 = "index.ts", 2 = "jobs/a/index.ts", 3 = "jobs/b/index.ts".    *)
(* discoverEntryPoints globs three patterns in a fixed order and the       *)
(* matches of one pattern come in directory-enumeration order, so the two  *)
(* job entries may come in either order.                                   *)
(***************************************************************************)
EntryLists == { <<>>, <<1>>, <<1, 2, 3>>, <<1, 3, 2>> }

PathLess(x, y) == x < y

\* createEntrySignature: Array.from(entryPoints).sort().join('|').  The
\* joined string is written as the sorted sequence it is the join of.
createEntrySignature(entryPoints) == SortSeq(entryPoints, PathLess)

\* createIncrementalKey: `${mode}:${path.resolve(buildRoot)}`.
createIncrementalKey(mode, buildRoot) == <<mode, buildRoot>>

(***************************************************************************)
(* incrementalBuildCache: a JavaScript Map.  get/set/delete as Map does    *)
(* them: set on a present key replaces the value in place, set on an       *)
(* absent key appends, iteration is in insertion order.                    *)
(***************************************************************************)
CacheHas(m, key) == \E i \in 1..Len(m) : m[i].key = key

CacheGet(m, key) ==
    IF CacheHas(m, key)
    THEN LET i == CHOOSE j \in 1..Len(m) : m[j].key = key IN m[i]
    ELSE None

CacheSet(m, key, entrySignature, context) ==
    LET e == [key |-> key, entrySignature |-> entrySignature, context |-> context]
    IN IF CacheHas(m, key)
       THEN [i \in 1..Len(m) |-> IF m[i].key = key THEN e ELSE m[i]]
       ELSE Append(m, e)

CacheDeleteKey_Kept(m, key) == m

CacheDeleteKey(m, key) ==
    LET Keep(e) == e.key # key IN SelectSeq(m, Keep)

CacheKeys(m) == { m[i].key : i \in 1..Len(m) }

CacheContexts(m) == { m[i].context : i \in 1..Len(m) }

\* context.dispose() has been called on every session of S.
DisposeAll(ss, S) == [x \in DOMAIN ss |-> IF x \in S THEN "disposed" ELSE ss[x]]

(***************************************************************************)
(* Diagnostics: severity and what the message says.                        *)
(***************************************************************************)
Diag(severity, message) == [severity |-> severity, message |-> message]

\* n copies of one diagnostic, as a loop of diagnostics.push does.
Repeat(d, n) == [i \in 1..n |-> d]

Min(x, y) == IF x < y THEN x ELSE y

HasDiag(ds, severity, message) ==
    \E i \in 1..Len(ds) : ds[i] = Diag(severity, message)

CountDiag(ds, severity, message) ==
    Cardinality({ i \in 1..Len(ds) : ds[i] = Diag(severity, message) })

(***************************************************************************)
(* A call slot between two Build calls, and the initial state.             *)
(***************************************************************************)
IdleCall ==
    [ pc          |-> "idle",
      mode        |-> "build",
      incremental |-> FALSE,
      buildRoot   |-> CHOOSE r \in Roots : TRUE,
      entryPoints |-> <<>>,
      diagnostics |-> <<>>,
      child       |-> None,      \* the tsc subprocess of this call
      cont        |-> None,      \* where an awaited disposeIncrementalBuild returns to
      deleting    |-> FALSE,     \* that dispose found an entry and will delete the key
      context     |-> 0,         \* the session this call builds on (0: none)
      reused      |-> FALSE,     \* reusedIncremental
      diagMax     |-> 0,         \* diagMax, once runEsbuild has computed it
      onDisposed  |-> FALSE,     \* history: rebuild() was called on a session
                                 \* on which dispose() had been called
      failure     |-> [kind |-> None, errors |-> 0, warnings |-> 0],
                                 \* the error caught by runEsbuild's catch
      outputs     |-> <<>>,      \* runEsbuild's return value (<<>>: undefined)
      manifest    |-> None,      \* the hydrated module manifest
      logLevel    |-> <<>>,      \* env.WEBSTIR_BACKEND_LOG_LEVEL, once read
      returned    |-> <<>>,      \* <<diagnostics returned to the caller>>
      error       |-> None,      \* the error the Build call rejected with
      phases      |-> <<>>,      \* history: phases started by this call
      events      |-> <<>>,      \* history: session/cache operations of this call
      wrote       |-> {},        \* history: shared state this call has written
      writeFailed |-> {} ]       \* history: files whose writeFile failed

\* What is remembered of a finished Build call.
NoBuild ==
    [ finished |-> "none", mode |-> "build", incremental |-> FALSE,
      buildRoot |-> CHOOSE r \in Roots : TRUE,
      entryPoints |-> <<>>, context |-> 0 ]

Summary(r, finished) ==
    [ finished |-> finished, mode |-> r.mode, incremental |-> r.incremental,
      buildRoot |-> r.buildRoot,
      entryPoints |-> r.entryPoints, context |-> r.context ]

BuildInit ==
    /\ cache = <<>>
    /\ sessions = <<>>
    /\ exited = FALSE
    /\ outputsFile = <<>>
    /\ digestFile = <<>>
    /\ builds = 0
    /\ call = [c \in Calls |-> IdleCall]
    /\ last = NoBuild

Finished(c) == call[c].pc \in {"done", "failed"}

Set(c, r) == call' = [call EXCEPT ![c] = r]

Push(ds, more) == ds \o more


(***************************************************************************)
(* Strings the code inspects character by character are sequences of       *)
(* one-character strings.                                                  *)
(***************************************************************************)
LowerChar(ch) ==
    CASE ch = "S" -> "s"
      [] ch = "K" -> "k"
      [] ch = "I" -> "i"
      [] ch = "P" -> "p"
      [] ch = "O" -> "o"
      [] ch = "F" -> "f"
      [] ch = "N" -> "n"
      [] ch = "W" -> "w"
      [] ch = "A" -> "a"
      [] ch = "R" -> "r"
      [] ch = "E" -> "e"
      [] OTHER -> ch

\* String.prototype.toLowerCase.
ToLowerCase(str) == [i \in 1..Len(str) |-> LowerChar(str[i])]

SkipWord == <<"s", "k", "i", "p">>

\* An environment variable is <<>> when unset and <<value>> when set.
IsString(v) == Len(v) = 1

\* The policy with the comparison made on the flag as it is written.
shouldTypeCheck_CaseSensitive(mode, flag) ==
    IF mode = "publish"
    THEN TRUE
    ELSE IF IsString(flag) /\ flag[1] = SkipWord
         THEN FALSE
         ELSE TRUE

\* shouldTypeCheck(mode, env), with flag = env.WEBSTIR_BACKEND_TYPECHECK.
shouldTypeCheck(mode, flag) ==
    IF mode = "publish"
    THEN TRUE
    ELSE IF IsString(flag) /\ ToLowerCase(flag[1]) = SkipWord
         THEN FALSE
         ELSE TRUE

\* The values of WEBSTIR_BACKEND_TYPECHECK a Build call is started with.
TypeCheckFlags ==
    { <<>>, <<SkipWord>>, << <<"S", "K", "I", "P">> >>, << <<"o", "n">> >> }

(***************************************************************************)
(* backendProvider.build: the call starts.  With `serial` the caller       *)
(* serializes its Build calls; without it calls may overlap.  `limit` is   *)
(* the number of Build calls of the run.                                   *)
(***************************************************************************)
Start(c, serial, limit) ==
    /\ ~exited
    /\ call[c].pc = "idle"
    /\ c = "b" => call["a"].pc # "idle"     \* the first free slot is taken
    /\ builds < limit
    /\ serial => \A d \in Calls : call[d].pc = "idle"
    /\ \E mode \in Modes, incremental \in BOOLEAN, root \in Roots :
          Set(c, [IdleCall EXCEPT !.pc = "tsc",
                                  !.mode = mode,
                                  !.incremental = incremental,
                                  !.buildRoot = root])
    /\ builds' = builds + 1
    /\ UNCHANGED <<cache, sessions, exited, outputsFile, digestFile, last, fn>>

(***************************************************************************)
(* Phase 1, type-check (build, runTypeCheck).                              *)
(***************************************************************************)
\* The synchronous part: the policy, the tsconfig test and the spawn.
TypeCheck(c, E) ==
    /\ ~exited
    /\ call[c].pc = "tsc"
    /\ \E flag \in E.flags, tsconfigExists \in E.tsconfig :
          LET r == [call[c] EXCEPT !.phases = Append(@, "type-check")] IN
          IF ~shouldTypeCheck(call[c].mode, flag)
          THEN Set(c, [r EXCEPT !.pc = "discover",
                         !.diagnostics = Append(@, Diag("info", "type-check skipped"))])
          ELSE IF ~tsconfigExists
          THEN Set(c, [r EXCEPT !.pc = "discover",
                         !.diagnostics = Append(@, Diag("warn", "tsconfig not found"))])
          ELSE Set(c, [r EXCEPT !.pc = "tsc_wait", !.child = "running"])
    /\ UNCHANGED <<cache, sessions, exited, outputsFile, digestFile, builds, last, fn>>

\* A missing compiler taken for any other spawn error.
ToolMissing_Rejects(r) ==
    [r EXCEPT !.child = "enoent",
              !.diagnostics = Append(@, Diag("warn", "tsc not found")),
              !.pc = "failed",
              !.error = "spawn error"]

\* The 'error' handler on ENOENT: the warning, then resolve().
ToolMissing(r) ==
    [r EXCEPT !.child = "enoent",
              !.diagnostics = Append(@, Diag("warn", "tsc not found")),
              !.pc = "discover"]

\* child.on('error'): ENOENT resolves the promise with a warning, any
\* other spawn error rejects it.  resolve and reject act only on a promise
\* that is still pending.
TscError(c, E) ==
    /\ ~exited
    /\ call[c].child = "running"
    /\ \E code \in E.spawnErrors :
          IF code = "ENOENT"
          THEN Set(c, ToolMissing(call[c]))
          ELSE Set(c, [call[c] EXCEPT
                        !.child = "spawn-error",
                        !.pc = "failed",
                        !.error = "spawn error"])
    /\ UNCHANGED <<cache, sessions, exited, outputsFile, digestFile, builds, last, fn>>

\* What the close handler appends for a non-zero code: the failure line,
\* then stderr and stdout when they are not blank.
CloseDiagnostics(hasStderr, hasStdout) ==
    <<Diag("error", "type checking failed")>>
        \o (IF hasStderr THEN <<Diag("error", "tsc stderr")>> ELSE <<>>)
        \o (IF hasStdout THEN <<Diag("info", "tsc stdout")>> ELSE <<>>)

\* A failed check that is recorded but resolves the promise.
TypeCheckFailed_Resolves(r, hasStderr, hasStdout) ==
    [r EXCEPT !.child = "exit-nonzero",
              !.diagnostics = Push(@, CloseDiagnostics(hasStderr, hasStdout)),
              !.pc = "discover"]

\* The 'close' handler on a non-zero code: the diagnostics, then reject();
\* build has no catch around the await, so the Build call rejects.
TypeCheckFailed(r, hasStderr, hasStdout) ==
    [r EXCEPT !.child = "exit-nonzero",
              !.diagnostics = Push(@, CloseDiagnostics(hasStderr, hasStdout)),
              !.pc = "failed",
              !.error = "Type checking failed."]

\* child.on('close') of a subprocess that ran: code 0 resolves, any other
\* code records the failure and rejects.
TscClose(c, E) ==
    /\ ~exited
    /\ call[c].child = "running"
    /\ \E code \in E.exitCodes, hasStderr \in E.tscOutput, hasStdout \in E.tscOutput :
          IF code = 0
          THEN Set(c, [call[c] EXCEPT !.child = "exit-zero", !.pc = "discover"])
          ELSE Set(c, TypeCheckFailed(call[c], hasStderr, hasStdout))
    /\ UNCHANGED <<cache, sessions, exited, outputsFile, digestFile, builds, last, fn>>

\* child.on('close') after a failed spawn: Node emits 'close' with the
\* negative errno after 'error'.  The promise is already settled, so the
\* reject is without effect, but the handler still appends its diagnostics
\* to the list of the call, wherever the call is by then.
TscCloseAfterError(c, E) ==
    /\ ~exited
    /\ call[c].child \in {"enoent", "spawn-error"}
    /\ Set(c, [call[c] EXCEPT
                 !.child = IF @ = "enoent" THEN "enoent-closed" ELSE "spawn-error-closed",
                 !.diagnostics = Push(@, CloseDiagnostics(FALSE, FALSE))])
    /\ UNCHANGED <<cache, sessions, exited, outputsFile, digestFile, builds, last, fn>>

(***************************************************************************)
(* Phase 2, entry discovery (build, discoverEntryPoints).                  *)
(***************************************************************************)
Discover(c, E) ==
    /\ ~exited
    /\ call[c].pc = "discover"
    /\ \E entryPoints \in E.entries :
          Set(c, [call[c] EXCEPT
                    !.pc = "bundle",
                    !.phases = Append(@, "discovery"),
                    !.entryPoints = entryPoints,
                    !.diagnostics =
                        IF Len(entryPoints) = 0
                        THEN Append(@, Diag("warn", "no entry points"))
                        ELSE @])
    /\ UNCHANGED <<cache, sessions, exited, outputsFile, digestFile, builds, last, fn>>


(***************************************************************************)
(* Phase 3, bundle (runEsbuild).                                           *)
(***************************************************************************)
\* What esbuild settles with: a result with warnings and a metafile, a
\* build failure carrying errors and warnings, or another exception.
OutputMaps ==
    { { <<"index.js", 100>> },
      { <<"index.js", 150>>, <<"jobs/a/index.js", 40>> } }

BundleResults ==
    { [kind |-> "result", errors |-> 0, warnings |-> w] : w \in {0, 2} }
        \cup { [kind |-> "failure", errors |-> 1, warnings |-> 0],
               [kind |-> "failure", errors |-> 2, warnings |-> 2],
               [kind |-> "exception", errors |-> 0, warnings |-> 0] }

DefaultDiagMax == 50

\* diagMax of a raw WEBSTIR_BACKEND_DIAG_MAX whose parseInt is raw[1].
DiagMaxOf(raw) ==
    IF IsString(raw) /\ raw[1] > 0 THEN raw[1] ELSE DefaultDiagMax

DiagMaxEnv == { <<>>, <<1>> }

isProduction_Never(r) == FALSE

isProduction(r) == r.mode = "publish"

useIncremental(r) == ~isProduction(r) /\ r.incremental = TRUE

\* Whether incrementalKey is defined, and the key.
HasIncrementalKey(r) == useIncremental(r)

incrementalKey(r) == createIncrementalKey(r.mode, r.buildRoot)

\* The line for what the cap left out: "... N more warning(s) omitted".
Omitted(message, n) == [severity |-> "info", message |-> message, omitted |-> n]

\* A result whose warnings are all pushed, whatever the cap.
ResultDiagnostics_Uncapped(res, diagMax) ==
    Repeat(Diag("warn", "esbuild warning"), res.warnings)
        \o (IF res.warnings > diagMax
            THEN <<Omitted("warnings omitted", res.warnings - diagMax)>> ELSE <<>>)
        \o <<Diag("info", "esbuild summary")>>

\* The diagnostics of a run that settled with a result (lines 403-418).
ResultDiagnostics(res, diagMax) ==
    Repeat(Diag("warn", "esbuild warning"), Min(res.warnings, diagMax))
        \o (IF res.warnings > diagMax
            THEN <<Omitted("warnings omitted", res.warnings - diagMax)>> ELSE <<>>)
        \o <<Diag("info", "esbuild summary")>>

\* The diagnostics the catch block records before it throws (lines 426-446).
FailureDiagnostics(f, diagMax) ==
    IF f.kind = "failure"
    THEN Repeat(Diag("error", "esbuild error"), Min(f.errors, diagMax))
            \o Repeat(Diag("warn", "esbuild warning"), Min(f.warnings, diagMax))
            \o (IF f.errors > diagMax
                THEN <<Omitted("errors omitted", f.errors - diagMax)>> ELSE <<>>)
            \o (IF f.warnings > diagMax
                THEN <<Omitted("warnings omitted", f.warnings - diagMax)>> ELSE <<>>)
            \o <<Diag("info", "esbuild failure summary")>>
    ELSE <<Diag("error", "exception message")>>

\* The throw without the diagnostics of the caught error.
ThrowBuildFailed_Unrecorded(r) ==
    [r EXCEPT !.pc = "failed", !.error = "esbuild failed."]

\* The diagnostics of the caught error are pushed, then
\* throw new Error('esbuild failed.') ends the catch block.
ThrowBuildFailed(r) ==
    [r EXCEPT !.diagnostics = Push(@, FailureDiagnostics(r.failure, r.diagMax)),
              !.pc = "failed",
              !.error = "esbuild failed."]

\* disposeIncrementalBuild(key) up to its await: the entry is looked up
\* and dispose() is called on its session; the delete follows the await.
\* `cont` is where the caller goes on once the dispose has returned.
DisposeCalled(r, cont) ==
    IF CacheHas(cache, incrementalKey(r))
    THEN [r EXCEPT !.pc = "esb_dispose", !.cont = cont, !.deleting = TRUE,
                   !.events = Append(@, <<"dispose",
                                 CacheGet(cache, incrementalKey(r)).context>>)]
    ELSE [r EXCEPT !.pc = "esb_dispose", !.cont = cont, !.deleting = FALSE]

\* A disposeIncrementalBuild that deletes the key without calling dispose().
DisposedSessions_NotCalled(r) == sessions

\* The sessions once disposeIncrementalBuild has called dispose().
DisposedSessions(r) ==
    IF CacheHas(cache, incrementalKey(r))
    THEN DisposeAll(sessions, {CacheGet(cache, incrementalKey(r)).context})
    ELSE sessions

\* esbuild(...) has been called: a one-shot build is under way.
OneShotCalled(r) ==
    [r EXCEPT !.pc = "esb_build", !.context = 0,
              !.events = Append(@, <<"build", 0>>)]

\* esbuildContext(...) has been called.
ContextCalled(r) == [r EXCEPT !.pc = "esb_create"]

\* No entry points taken for a failed bundle.
SkipBundle_Fails(r) ==
    [r EXCEPT !.pc = "failed", !.error = "esbuild failed."]

\* return undefined: without entry points no bundler call is made.
SkipBundle(r) ==
    [r EXCEPT !.pc = "moddef", !.outputs = <<>>]

\* runEsbuild from its first line to its first await.
RunEsbuild(c, E) ==
    /\ ~exited
    /\ call[c].pc = "bundle"
    /\ \E raw \in E.diagMax :
       LET r == [call[c] EXCEPT !.phases = Append(@, "bundle"),
                                !.diagMax = IF Len(call[c].entryPoints) = 0
                                            THEN 0 ELSE DiagMaxOf(raw)]
           key == incrementalKey(r)
           entrySignature == createEntrySignature(r.entryPoints)
       IN
       IF Len(r.entryPoints) = 0
       THEN IF HasIncrementalKey(r)
            THEN Set(c, DisposeCalled(r, "return")) /\ sessions' = DisposedSessions(r)
            ELSE Set(c, SkipBundle(r))
                 /\ UNCHANGED sessions
       ELSE IF isProduction(r)
       THEN IF HasIncrementalKey(r)
            THEN Set(c, DisposeCalled(r, "oneshot")) /\ sessions' = DisposedSessions(r)
            ELSE Set(c, OneShotCalled(r)) /\ UNCHANGED sessions
       ELSE IF useIncremental(r) /\ HasIncrementalKey(r) /\ Len(entrySignature) > 0
       THEN IF CacheHas(cache, key)
               /\ CacheGet(cache, key).entrySignature = entrySignature
            THEN \* reuse: cached.context.rebuild()
                 /\ Set(c, [r EXCEPT
                       !.pc = "esb_build",
                       !.reused = TRUE,
                       !.context = CacheGet(cache, key).context,
                       !.onDisposed =
                           sessions[CacheGet(cache, key).context] = "disposed",
                       !.events = Append(@, <<"rebuild", CacheGet(cache, key).context>>)])
                 /\ UNCHANGED sessions
            ELSE IF CacheHas(cache, key)
                 THEN Set(c, DisposeCalled(r, "create"))
                      /\ sessions' = DisposedSessions(r)
                 ELSE Set(c, ContextCalled(r)) /\ UNCHANGED sessions
       ELSE IF HasIncrementalKey(r)
            THEN Set(c, DisposeCalled(r, "oneshot")) /\ sessions' = DisposedSessions(r)
            ELSE Set(c, OneShotCalled(r)) /\ UNCHANGED sessions
    /\ UNCHANGED <<cache, exited, outputsFile, digestFile, builds, last, fn>>

\* disposeIncrementalBuild after its await: the key is deleted whether
\* dispose() resolved or threw, and the caller goes on.
DisposeReturns(c, E) ==
    /\ ~exited
    /\ call[c].pc = "esb_dispose"
    /\ \E disposeThrew \in E.disposeThrows :
          LET r0 == call[c]
              r == IF r0.deleting
                   THEN [r0 EXCEPT !.deleting = FALSE,
                                   !.events = Append(@, <<"delete", 0>>),
                                   !.wrote = @ \cup {"cache"}]
                   ELSE r0
          IN /\ cache' = IF r0.deleting
                         THEN CacheDeleteKey(cache, incrementalKey(r0))
                         ELSE cache
             /\ CASE r.cont = "return" ->
                       Set(c, [SkipBundle(r) EXCEPT !.cont = None])
                  [] r.cont = "oneshot" ->
                       Set(c, [OneShotCalled(r) EXCEPT !.cont = None])
                  [] r.cont = "create" ->
                       Set(c, [ContextCalled(r) EXCEPT !.cont = None])
                  [] r.cont = "throw" ->
                       Set(c, [ThrowBuildFailed(r) EXCEPT !.cont = None])
    /\ UNCHANGED <<sessions, exited, outputsFile, digestFile, builds, last, fn>>

\* A catch block that throws without disposeIncrementalBuild.
Caught_WithoutDispose(r, f) == ThrowBuildFailed([r EXCEPT !.failure = f])

\* The catch block of runEsbuild up to its await or, without a key, to
\* its throw.
Caught(r, f) ==
    IF HasIncrementalKey(r)
    THEN DisposeCalled([r EXCEPT !.failure = f], "throw")
    ELSE ThrowBuildFailed([r EXCEPT !.failure = f])

CaughtSessions(r) ==
    IF HasIncrementalKey(r) THEN DisposedSessions(r) ELSE sessions

ContextStored_NotStored(m, r, context) == m

\* A set that leaves an entry already under the key in place.
ContextStored_KeepsFirst(m, r, context) ==
    IF CacheHas(m, incrementalKey(r)) THEN m
    ELSE CacheSet(m, incrementalKey(r), createEntrySignature(r.entryPoints), context)

\* The new session is stored under the key and rebuilt (lines 377-381).
ContextStored(m, r, context) ==
    CacheSet(m, incrementalKey(r), createEntrySignature(r.entryPoints), context)

\* await esbuildContext(...) settles.
ContextSettles(c, E) ==
    /\ ~exited
    /\ call[c].pc = "esb_create"
    /\ \/ LET context == Len(sessions) + 1
              r == call[c]
          IN /\ sessions' = Append(sessions, "live")
             /\ cache' = ContextStored(cache, r, context)
             /\ Set(c, [r EXCEPT
                   !.pc = "esb_build",
                   !.context = context,
                   !.wrote = @ \cup {"cache"},
                   !.events = @ \o << <<"create", context>>, <<"set", context>>,
                                      <<"rebuild", context>> >>])
       \/ /\ Set(c, Caught(call[c],
                           [kind |-> "exception", errors |-> 0, warnings |-> 0]))
          /\ sessions' = CaughtSessions(call[c])
          /\ UNCHANGED cache
    /\ UNCHANGED <<exited, outputsFile, digestFile, builds, last, fn>>

\* await esbuild(...) or await context.rebuild() settles.
BuildSettles(c, E) ==
    /\ ~exited
    /\ call[c].pc = "esb_build"
    /\ \E res \in E.results, metafile \in E.metafiles :
          IF res.kind = "result"
          THEN /\ Set(c, [call[c] EXCEPT
                     !.diagnostics = Push(@, ResultDiagnostics(res, call[c].diagMax)),
                     !.outputs = <<metafile>>,
                     !.pc = "moddef"])
               /\ UNCHANGED sessions
          ELSE /\ Set(c, Caught(call[c], res))
               /\ sessions' = CaughtSessions(call[c])
    /\ UNCHANGED <<cache, exited, outputsFile, digestFile, builds, last, fn>>

\* The compile without its try/catch: a failure rejects the Build call.
ModuleDefinitionBuilt_Throws(r, outcome) ==
    IF outcome = "failed"
    THEN [r EXCEPT !.pc = "failed", !.error = "module definition error",
                   !.diagnostics = Append(@, Diag("error", "module definition error"))]
    ELSE [r EXCEPT !.pc = "artifacts"]

\* buildModuleDefinition returns: what its catch block recorded of a
\* failed compile is in the diagnostics, and nothing is thrown.
ModuleDefinitionBuilt(r, outcome) ==
    [r EXCEPT !.pc = "artifacts",
              !.diagnostics =
                  IF outcome = "failed"
                  THEN Append(@, Diag("error", "module definition error"))
                  ELSE @]

\* The single-file compile of the module-definition source, when there is
\* one: its failure is recorded and the build goes on (buildModuleDefinition).
ModuleDefinition(c, E) ==
    /\ ~exited
    /\ call[c].pc = "moddef"
    /\ \E outcome \in E.moduleDefinition :
          Set(c, ModuleDefinitionBuilt(call[c], outcome))
    /\ UNCHANGED <<cache, sessions, exited, outputsFile, digestFile, builds, last, fn>>

(***************************************************************************)
(* Phases 4 to 7 (build, lines 135-170).                                   *)
(***************************************************************************)
\* Artifact collection handing over to the cache diff directly.
CollectArtifacts_ThenDiff(c, E) ==
    /\ ~exited
    /\ call[c].pc = "artifacts"
    /\ Set(c, [call[c] EXCEPT !.pc = "cachediff",
                              !.phases = Append(@, "artifact-collect")])
    /\ UNCHANGED <<cache, sessions, exited, outputsFile, digestFile, builds, last, fn>>

CollectArtifacts(c, E) ==
    /\ ~exited
    /\ call[c].pc = "artifacts"
    /\ Set(c, [call[c] EXCEPT !.pc = "manifest",
                              !.phases = Append(@, "artifact-collect")])
    /\ UNCHANGED <<cache, sessions, exited, outputsFile, digestFile, builds, last, fn>>

\* The digests a hydrated manifest can have.
Manifests == {"manifest-1", "manifest-2"}

HydrateManifest(c, E) ==
    /\ ~exited
    /\ call[c].pc = "manifest"
    /\ \E m \in E.manifests :
          Set(c, [call[c] EXCEPT
                    !.pc = "cachediff",
                    !.phases = Append(@, "manifest-hydrate"),
                    !.manifest = m,
                    !.diagnostics = Append(@, Diag("info", "built entries"))])
    /\ UNCHANGED <<cache, sessions, exited, outputsFile, digestFile, builds, last, fn>>

(***************************************************************************)
(* The persisted files (persistAndDiffOutputs, persistAndDiffManifest).    *)
(* The content of a file is <<>> when the file is absent, <<v>> when it    *)
(* holds the JSON object v, and <<kind, n>> when it holds anything else:   *)
(* text that JSON.parse rejects, null, a number, a string of n characters, *)
(* or, for the digest, an object whose routes field is the number n.       *)
(***************************************************************************)
OtherOutputsContents ==
    { <<"unparseable", 0>>, <<"null", 0>>, <<"number", 0>>, <<"string", 2>> }

OtherDigestContents ==
    { <<"unparseable", 0>>, <<"null", 0>>, <<"number", 0>>, <<"bad-routes", 5>> }

IsObject(file) == Len(file) = 1

HoldsKind(file, kind) == Len(file) = 2 /\ file[1] = kind

\* The own keys of a JSON string are the indices of its characters.
IndexKeys == <<"0", "1", "2">>

\* A value of a prior map that is not a byte size.
NotASize == 0 - 1

\* `previous` after the inner try/catch, as the set of its <<key, value>>
\* pairs: the parsed object, the characters of a parsed string, nothing
\* for a parsed number, and {} when readFile or JSON.parse threw.
Previous(file) ==
    IF IsObject(file) THEN file[1]
    ELSE IF HoldsKind(file, "string")
         THEN { <<IndexKeys[i], NotASize>> : i \in 1..file[2] }
         ELSE {}

\* A SyntaxError of JSON.parse taken out of the inner try.
PreviousIsNull_OrUnparseable(file) ==
    HoldsKind(file, "null") \/ HoldsKind(file, "unparseable")

\* JSON.parse returned null: previous[rel] and Object.keys(previous) throw.
PreviousIsNull(file) == HoldsKind(file, "null")

\* Every produced path taken for changed.
Changed_Always(previous, outputs) == outputs

\* for (const [rel, bytes] of Object.entries(outputs))
\*     if (previous[rel] !== bytes) changed.push(rel)
Changed(previous, outputs) == { p \in outputs : p \notin previous }

\* No path taken for removed.
Removed_None(previous, outputs) == {}

\* Object.keys(previous).filter((rel) => outputs[rel] === undefined)
Removed(previous, outputs) ==
    { p \in previous : ~\E q \in outputs : q[1] = p[1] }

\* The diagnostic of an output diff: "changed N file(s): " with the first
\* diagMax names, "(+K more)" for the rest, and ", removed=R" when R > 0.
OutputsDiag(changed, removed, diagMax) ==
    [ severity |-> "info",
      message  |-> "outputs changed",
      changed  |-> Cardinality(changed),
      listed   |-> Min(Cardinality(changed), diagMax),
      more     |-> IF Cardinality(changed) > diagMax
                   THEN Cardinality(changed) - diagMax ELSE 0,
      removed  |-> Cardinality(removed) ]

\* A diff that reports only sizes that differ from a recorded size.
persistAndDiffOutputs_BothOnly(file, outputs, diagMax, writeFails) ==
    IF outputs = <<>> \/ PreviousIsNull(file)
    THEN [file |-> file, emitted |-> <<>>, wrote |-> FALSE, failed |-> FALSE]
    ELSE LET previous == Previous(file)
             changed == { p \in outputs[1] :
                             /\ p \notin previous
                             /\ \E q \in previous : q[1] = p[1] }
             removed == Removed(previous, outputs[1])
         IN [ file    |-> IF writeFails THEN file ELSE outputs,
              emitted |-> IF Cardinality(changed) + Cardinality(removed) > 0
                          THEN <<OutputsDiag(changed, removed, diagMax)>>
                          ELSE <<>>,
              wrote   |-> ~writeFails,
              failed  |-> writeFails ]

\* persistAndDiffOutputs: the file it leaves, the diagnostics it pushes to
\* its target, and whether writeFile ran to its end.  Nothing happens
\* without outputs; an exception after the read (a null prior value, a
\* failing write) ends the function silently in its outer catch.
persistAndDiffOutputs(file, outputs, diagMax, writeFails) ==
    IF outputs = <<>> \/ PreviousIsNull(file)
    THEN [file |-> file, emitted |-> <<>>, wrote |-> FALSE, failed |-> FALSE]
    ELSE LET previous == Previous(file)
             changed == Changed(previous, outputs[1])
             removed == Removed(previous, outputs[1])
         IN [ file    |-> IF writeFails THEN file ELSE outputs,
              emitted |-> IF Cardinality(changed) + Cardinality(removed) > 0
                          THEN <<OutputsDiag(changed, removed, diagMax)>>
                          ELSE <<>>,
              wrote   |-> ~writeFails,
              failed  |-> writeFails ]

PersistOutputs(c, E) ==
    /\ ~exited
    /\ call[c].pc = "cachediff"
    /\ \E writeFails \in (IF call[c].outputs = <<>> THEN {FALSE} ELSE E.writeFails) :
          LET r == call[c]
              done == persistAndDiffOutputs(outputsFile, r.outputs, r.diagMax, writeFails)
          IN /\ Set(c, [r EXCEPT
                   !.pc = "digestdiff",
                   !.phases = Append(@, "cache-diff"),
                   !.diagnostics = Push(@, done.emitted),
                   !.wrote = IF done.wrote THEN @ \cup {"outputsFile"} ELSE @,
                   !.writeFailed = IF done.failed THEN @ \cup {"outputsFile"} ELSE @])
             /\ outputsFile' = done.file
    /\ UNCHANGED <<cache, sessions, exited, digestFile, builds, last, fn>>

\* String.prototype.toUpperCase, over the methods of the model.
MethodToUpperCase(method) ==
    CASE method = "get" -> "GET"
      [] method = "post" -> "POST"
      [] OTHER -> method

\* `${(r.method ?? '').toUpperCase()} ${r.path ?? ''}`: the method in upper
\* case and the path as it is declared.
RouteKey(route) == <<MethodToUpperCase(route.method), route.path>>

\* routeKeys: one key per declared route, in declaration order.
RouteKeys(routes) == [i \in 1..Len(routes) |-> RouteKey(routes[i])]

\* The routes, views and capabilities of the manifests of the model.
ManifestRoutes(manifest) ==
    IF manifest = "manifest-2"
    THEN << [method |-> "GET",
             path |-> <<"/", "a", "c", "c", "o", "u", "n", "t", "s">>] >>
    ELSE <<>>

ManifestViews(manifest) ==
    IF manifest \in {"manifest-1", "manifest-2"} THEN <<>> ELSE <<"/home">>

ManifestCapabilities(manifest) ==
    IF manifest \in {"manifest-1", "manifest-2"} THEN <<>> ELSE <<"db">>

\* The digest of a manifest: its route keys, view paths and capabilities.
Digest(manifest) ==
    [ routes       |-> RouteKeys(ManifestRoutes(manifest)),
      views        |-> ManifestViews(manifest),
      capabilities |-> ManifestCapabilities(manifest) ]

Elements(seq) == { seq[i] : i \in 1..Len(seq) }

\* A diff that takes an absent digest for an empty one.
HasPreviousDigest_Always(file) == TRUE

\* `previous` of the manifest diff is defined and truthy.
HasPreviousDigest(file) == IsObject(file) \/ HoldsKind(file, "number")

\* new Set(previous.routes) throws when routes is not iterable.
PreviousDigestThrows(file) == HoldsKind(file, "bad-routes")

\* previous.routes and previous.views as sets; undefined gives the empty set.
PreviousRoutes(file) == IF IsObject(file) THEN Elements(file[1].routes) ELSE {}

PreviousViews(file) == IF IsObject(file) THEN Elements(file[1].views) ELSE {}

\* The diagnostic of a manifest diff: "routes +A/-R; views +A/-R".
ManifestDiag(addedRoutes, removedRoutes, addedViews, removedViews) ==
    [ severity      |-> "info",
      message       |-> "manifest changed",
      addedRoutes   |-> Cardinality(addedRoutes),
      removedRoutes |-> Cardinality(removedRoutes),
      addedViews    |-> Cardinality(addedViews),
      removedViews  |-> Cardinality(removedViews) ]

\* A failed write of the digest reported to the caller's list.
persistAndDiffManifest_ReportsFailure(file, manifest, writeFails) ==
    [ file    |-> IF writeFails \/ PreviousDigestThrows(file)
                  THEN file ELSE <<Digest(manifest)>>,
      emitted |-> IF writeFails
                  THEN <<Diag("warn", "cache write failed")>> ELSE <<>>,
      wrote   |-> ~writeFails /\ ~PreviousDigestThrows(file),
      failed  |-> writeFails ]

\* The body of persistAndDiffManifest from the digest of its manifest on.
persistAndDiffDigest(file, digest, writeFails) ==
    IF PreviousDigestThrows(file)
    THEN [file |-> file, emitted |-> <<>>, wrote |-> FALSE, failed |-> FALSE]
    ELSE LET nextRoutes == Elements(digest.routes)
             nextViews == Elements(digest.views)
             addedRoutes == nextRoutes \ PreviousRoutes(file)
             removedRoutes == PreviousRoutes(file) \ nextRoutes
             addedViews == nextViews \ PreviousViews(file)
             removedViews == PreviousViews(file) \ nextViews
         IN [ file    |-> IF writeFails THEN file ELSE <<digest>>,
              emitted |-> IF /\ HasPreviousDigest(file)
                             /\ Cardinality(addedRoutes) + Cardinality(removedRoutes)
                                  + Cardinality(addedViews) + Cardinality(removedViews) > 0
                          THEN <<ManifestDiag(addedRoutes, removedRoutes,
                                              addedViews, removedViews)>>
                          ELSE <<>>,
              wrote   |-> ~writeFails,
              failed  |-> writeFails ]

\* persistAndDiffManifest: as persistAndDiffOutputs, over the digest.
persistAndDiffManifest(file, manifest, writeFails) ==
    persistAndDiffDigest(file, Digest(manifest), writeFails)

PersistManifest(c, E) ==
    /\ ~exited
    /\ call[c].pc = "digestdiff"
    /\ \E writeFails \in E.writeFails :
          LET r == call[c]
              done == persistAndDiffManifest(digestFile, r.manifest, writeFails)
          IN /\ Set(c, [r EXCEPT
                   !.pc = "filter",
                   !.diagnostics = Push(@, done.emitted),
                   !.wrote = IF done.wrote THEN @ \cup {"digestFile"} ELSE @,
                   !.writeFailed = IF done.failed THEN @ \cup {"digestFile"} ELSE @])
             /\ digestFile' = done.file
    /\ UNCHANGED <<cache, sessions, exited, outputsFile, builds, last, fn>>

\* The severities as the code spells them.
SeverityWords ==
    [ error |-> <<"e", "r", "r", "o", "r">>,
      warn  |-> <<"w", "a", "r", "n">>,
      info  |-> <<"i", "n", "f", "o">> ]

\* normalizeLogLevel compares the value as it is: an upper-case level is
\* not recognized.
normalizeLogLevel_CaseSensitive(value) ==
    IF ~IsString(value) THEN "info"
    ELSE IF value[1] = SeverityWords.error THEN "error"
    ELSE IF value[1] = SeverityWords.warn THEN "warn"
    ELSE "info"

\* normalizeLogLevel(value).
normalizeLogLevel(value) ==
    IF ~IsString(value) THEN "info"
    ELSE LET v == ToLowerCase(value[1])
         IN IF v = SeverityWords.error THEN "error"
            ELSE IF v = SeverityWords.warn THEN "warn"
            ELSE "info"

\* The values of WEBSTIR_BACKEND_LOG_LEVEL of the calls.
LogLevels ==
    { <<>>,
      << <<"i", "n", "f", "o">> >>,
      << <<"w", "a", "r", "n">> >>,
      << <<"E", "r", "r", "o", "r">> >>,
      << <<"d", "e", "b", "u", "g">> >> }

\* filterDiagnostics(list, min).
rank(severity) ==
    IF severity = "error" THEN 3 ELSE IF severity = "warn" THEN 2 ELSE 1

\* The filter keeps only what ranks above the minimum.
filterDiagnostics_Above(list, min) ==
    LET Above(d) == rank(d.severity) > rank(min) IN SelectSeq(list, Above)

filterDiagnostics(list, min) ==
    LET AtLeast(d) == rank(d.severity) >= rank(min) IN SelectSeq(list, AtLeast)

Filter(c, E) ==
    /\ ~exited
    /\ call[c].pc = "filter"
    /\ \E value \in E.logLevels :
          LET minLevel == normalizeLogLevel(value)
          IN Set(c, [call[c] EXCEPT
                       !.pc = "done",
                       !.phases = Append(@, "filter"),
                       !.logLevel = value,
                       !.returned = <<filterDiagnostics(call[c].diagnostics, minLevel)>>])
    /\ UNCHANGED <<cache, sessions, exited, outputsFile, digestFile, builds, last, fn>>

(***************************************************************************)
(* process.once('exit'): clearIncrementalCache.  The loop is synchronous:  *)
(* dispose() is called on each entry in turn, a throw is swallowed, the    *)
(* key is deleted.  `throwing` are the sessions whose dispose() throws.    *)
(***************************************************************************)
RECURSIVE ClearLoop(_, _, _, _)
\* The loop over `rest`, the entries not yet visited: the <<cache, sessions>>
\* it ends with.  Deleting the visited key does not disturb the iteration.
ClearLoop(m, ss, rest, throwing) ==
    IF Len(rest) = 0
    THEN <<m, ss>>
    ELSE LET entry == Head(rest)
             called == DisposeAll(ss, {entry.context})
         IN IF entry.context \in throwing
            THEN \* catch { /* ignore */ }
                 ClearLoop(CacheDeleteKey(m, entry.key),
                           [ss EXCEPT ![entry.context] = "dispose-threw"],
                           Tail(rest), throwing)
            ELSE ClearLoop(CacheDeleteKey(m, entry.key), called, Tail(rest), throwing)

\* The loop without its try/catch: the first dispose() that throws ends it.
clearIncrementalCache_NoCatch(m, ss, throwing) ==
    LET stops == {i \in 1..Len(m) : m[i].context \in throwing}
        n == IF stops = {} THEN Len(m)
             ELSE CHOOSE i \in stops : \A j \in stops : i <= j
        visited == {m[i].context : i \in 1..n}
    IN << IF stops = {} THEN <<>> ELSE SubSeq(m, n, Len(m)),
          DisposeAll(ss, visited) >>

clearIncrementalCache(m, ss, throwing) == ClearLoop(m, ss, m, throwing)

ProcessExit ==
    /\ ~exited
    /\ exited' = TRUE
    /\ \E throwing \in SUBSET CacheContexts(cache) :
          LET end == clearIncrementalCache(cache, sessions, throwing)
          IN cache' = end[1] /\ sessions' = end[2]
    /\ UNCHANGED <<outputsFile, digestFile, builds, call, last, fn>>

\* The Build promise has settled and the caller has its result or its
\* error; the slot is free again.  With `remember` the call becomes the
\* last finished one of the history.
Return(c, remember) ==
    /\ ~exited
    /\ Finished(c)
    /\ last' = IF remember THEN Summary(call[c], call[c].pc) ELSE last
    /\ Set(c, IdleCall)
    /\ UNCHANGED <<cache, sessions, exited, outputsFile, digestFile, builds, fn>>

(***************************************************************************)
(* The environment of a specification: the inputs and outcomes its Build   *)
(* calls meet.                                                             *)
(***************************************************************************)
\* Every input and outcome of the model.
Detailed ==
    [ flags            |-> TypeCheckFlags,
      tsconfig         |-> BOOLEAN,
      spawnErrors      |-> {"ENOENT", "EACCES"},
      exitCodes        |-> {0, 1},
      tscOutput        |-> BOOLEAN,
      entries          |-> EntryLists,
      results          |-> BundleResults,
      diagMax          |-> DiagMaxEnv,
      metafiles        |-> OutputMaps,
      moduleDefinition |-> {"no source", "compiled", "failed"},
      manifests        |-> Manifests,
      writeFails       |-> BOOLEAN,
      logLevels        |-> LogLevels,
      disposeThrows    |-> BOOLEAN ]

\* One input or outcome per path through the code: what the check of
\* overlapping calls can afford.
Coarse ==
    [ flags            |-> { <<>> },
      tsconfig         |-> {TRUE},
      spawnErrors      |-> {},
      exitCodes        |-> {0, 1},
      tscOutput        |-> {FALSE},
      entries          |-> { <<>>, <<1>>, <<1, 2, 3>>, <<1, 3, 2>> },
      results          |-> { [kind |-> "result", errors |-> 0, warnings |-> 0],
                             [kind |-> "failure", errors |-> 1, warnings |-> 0] },
      diagMax          |-> { <<>> },
      metafiles        |-> { { <<"index.js", 100>> } },
      moduleDefinition |-> {"no source"},
      manifests        |-> {"manifest-1"},
      writeFails       |-> {FALSE},
      logLevels        |-> { <<>> },
      disposeThrows    |-> BOOLEAN ]

(***************************************************************************)
(* The specifications of the build provider.                               *)
(***************************************************************************)
Init == BuildInit /\ fn = <<>>

\* The steps of a Build call whose type-checker is installed.
Step(c, E) ==
    \/ TypeCheck(c, E)
    \/ TscClose(c, E)
    \/ Discover(c, E)
    \/ RunEsbuild(c, E)
    \/ DisposeReturns(c, E)
    \/ ContextSettles(c, E)
    \/ BuildSettles(c, E)
    \/ ModuleDefinition(c, E)
    \/ CollectArtifacts(c, E)
    \/ HydrateManifest(c, E)
    \/ PersistOutputs(c, E)
    \/ PersistManifest(c, E)
    \/ Filter(c, E)

\* The events of a type-checker that could not be spawned.
SpawnFailure(c, E) ==
    \/ TscError(c, E)
    \/ TscCloseAfterError(c, E)

\* Build calls may overlap.
Next ==
    \/ \E c \in Calls : Start(c, FALSE, MaxOverlapping)
    \/ \E c \in Calls : Step(c, Coarse)
    \/ \E c \in Calls : Return(c, FALSE)
    \/ ProcessExit

Spec == Init /\ [][Next]_vars

\* The caller serializes its Build calls: one is started when the one
\* before has settled.
NextSerial ==
    \/ \E c \in Calls : Start(c, TRUE, MaxBuilds)
    \/ \E c \in Calls : Step(c, Coarse)
    \/ \E c \in Calls : Return(c, TRUE)
    \/ ProcessExit

SpecSerial == Init /\ [][NextSerial]_vars

\* One Build call in every detail, in a process whose earlier Build calls
\* left one of the states PriorStates.
PriorStates ==
    { [cache |-> <<>>, sessions |-> <<>>],
      [cache |-> <<[key |-> createIncrementalKey("build", CHOOSE r \in Roots : TRUE),
                    entrySignature |-> <<1>>, context |-> 1]>>,
       sessions |-> <<"live">>] }

InitOne ==
    /\ \E prior \in PriorStates : cache = prior.cache /\ sessions = prior.sessions
    /\ outputsFile \in { <<>>, << { <<"index.js", 100>> } >> }
    /\ digestFile \in { <<>>, <<Digest("manifest-1")>> }
    /\ exited = FALSE
    /\ builds = 0
    /\ call = [c \in Calls |-> IdleCall]
    /\ last = NoBuild
    /\ fn = <<>>

NextOne ==
    \/ \E c \in Calls : Start(c, TRUE, 1)
    \/ \E c \in Calls : Step(c, Detailed)
    \/ \E c \in Calls : SpawnFailure(c, Detailed)
    \/ \E c \in Calls : Return(c, FALSE)
    \/ ProcessExit

SpecOne == InitOne /\ [][NextOne]_vars

(***************************************************************************)
(* The cache reporter (createCacheReporter): a reporter made for one       *)
(* workspace, and the diffs its caller runs through it.  fn holds the      *)
(* reporter and its caller's list; fn.plain is the same sequence of diffs  *)
(* run through a reporter made with an empty environment, on files of its  *)
(* own that started with the same content and meet the same I/O outcomes.  *)
(***************************************************************************)
MaxDiffs == 3

\* String.prototype.trim, over the space character.
Trim(str) ==
    LET inked == { i \in 1..Len(str) : str[i] # " " }
    IN IF inked = {} THEN <<>>
       ELSE SubSeq(str, CHOOSE i \in inked : \A j \in inked : i <= j,
                        CHOOSE i \in inked : \A j \in inked : i >= j)

QuietWords ==
    { <<"o", "f", "f">>, <<"0">>, <<"f", "a", "l", "s", "e">>,
      <<"q", "u", "i", "e", "t">>, <<"s", "i", "l", "e", "n", "t">>,
      <<"s", "k", "i", "p">> }

\* The words of the list compared as they are written.
shouldLogCacheDiffs_AsWritten(raw) ==
    IF ~IsString(raw) \/ raw[1] = <<>>
    THEN TRUE
    ELSE raw[1] \notin QuietWords

\* shouldLogCacheDiffs(env), with raw = env.WEBSTIR_BACKEND_CACHE_LOG.
shouldLogCacheDiffs(raw) ==
    IF ~IsString(raw) \/ raw[1] = <<>>
    THEN TRUE
    ELSE ToLowerCase(Trim(raw[1])) \notin QuietWords

\* The values of WEBSTIR_BACKEND_CACHE_LOG a reporter is made with.
CacheLogValues ==
    { <<>>, << <<>> >>, << <<"o", "f", "f">> >>, << <<" ", "O", "f", "F", " ">> >>,
      << <<"o", "n">> >> }

\* diagnosticsTarget: the caller's list, or a list nobody reads.
DiagnosticsTarget(raw, diagnostics, emitted) ==
    IF shouldLogCacheDiffs(raw) THEN Push(diagnostics, emitted) ELSE diagnostics

ReporterOutputs ==
    { <<>>, << {} >>,
      << { <<"index.js", 100>> } >>,
      << { <<"index.js", 150>> } >>,
      << { <<"index.js", 150>>, <<"jobs/a/index.js", 40>> } >> }

ReporterManifests == Manifests \cup {"manifest-3"}

NoDiff ==
    [ kind |-> None, before |-> <<>>, outputs |-> <<>>, manifest |-> None,
      emitted |-> <<>>, writeFails |-> FALSE ]

InitReporter ==
    /\ cache = <<>> /\ sessions = <<>> /\ exited = FALSE /\ builds = 0
    /\ call = [c \in Calls |-> IdleCall]
    /\ last = NoBuild
    /\ outputsFile \in { <<>>, << { <<"index.js", 100>> } >> } \cup OtherOutputsContents
    /\ digestFile \in { <<>>, <<Digest("manifest-1")>> } \cup OtherDigestContents
    /\ \E raw \in CacheLogValues, max \in DiagMaxEnv :
          fn = [ log         |-> raw,
                 diagMax     |-> DiagMaxOf(max),
                 diagnostics |-> <<>>,
                 diffs       |-> 0,
                 op          |-> NoDiff,
                 plain       |-> [ outputsFile |-> outputsFile,
                                   digestFile  |-> digestFile,
                                   diagnostics |-> <<>> ] ]

\* reporter.diffOutputs(outputs, mode).
DiffOutputs ==
    /\ fn.diffs < MaxDiffs
    /\ \E outputs \in ReporterOutputs, writeFails \in BOOLEAN :
          LET done == persistAndDiffOutputs(outputsFile, outputs, fn.diagMax, writeFails)
              same == persistAndDiffOutputs(fn.plain.outputsFile, outputs,
                                            fn.diagMax, writeFails)
          IN /\ outputsFile' = done.file
             /\ fn' = [fn EXCEPT
                   !.diagnostics = DiagnosticsTarget(fn.log, @, done.emitted),
                   !.diffs = @ + 1,
                   !.op = [ kind |-> "outputs", before |-> outputsFile,
                            outputs |-> outputs, manifest |-> None,
                            emitted |-> done.emitted, writeFails |-> writeFails ],
                   !.plain.outputsFile = same.file,
                   !.plain.diagnostics = Push(@, same.emitted)]
    /\ UNCHANGED <<cache, sessions, exited, digestFile, builds, call, last>>

\* reporter.diffManifest(manifest).
DiffManifest ==
    /\ fn.diffs < MaxDiffs
    /\ \E manifest \in ReporterManifests, writeFails \in BOOLEAN :
          LET done == persistAndDiffManifest(digestFile, manifest, writeFails)
              same == persistAndDiffManifest(fn.plain.digestFile, manifest, writeFails)
          IN /\ digestFile' = done.file
             /\ fn' = [fn EXCEPT
                   !.diagnostics = DiagnosticsTarget(fn.log, @, done.emitted),
                   !.diffs = @ + 1,
                   !.op = [ kind |-> "manifest", before |-> digestFile,
                            outputs |-> <<>>, manifest |-> manifest,
                            emitted |-> done.emitted, writeFails |-> writeFails ],
                   !.plain.digestFile = same.file,
                   !.plain.diagnostics = Push(@, same.emitted)]
    /\ UNCHANGED <<cache, sessions, exited, outputsFile, builds, call, last>>

NextReporter == DiffOutputs \/ DiffManifest

SpecReporter == InitReporter /\ [][NextReporter]_vars

\* One Build call over every content of the two persisted files, with
\* writes that may fail.
Plain ==
    [Coarse EXCEPT !.entries = { <<>>, <<1>> },
                   !.exitCodes = {0},
                   !.metafiles = OutputMaps,
                   !.manifests = Manifests,
                   !.writeFails = BOOLEAN]

InitFiles ==
    /\ cache = <<>> /\ sessions = <<>> /\ exited = FALSE /\ builds = 0
    /\ call = [c \in Calls |-> IdleCall]
    /\ last = NoBuild
    /\ fn = <<>>
    /\ outputsFile \in { <<>>, << { <<"index.js", 100>> } >> } \cup OtherOutputsContents
    /\ digestFile \in { <<>>, <<Digest("manifest-1")>> } \cup OtherDigestContents

NextFiles ==
    \/ \E c \in Calls : Start(c, TRUE, 1)
    \/ \E c \in Calls : Step(c, Plain)
    \/ \E c \in Calls : Return(c, FALSE)

SpecFiles == InitFiles /\ [][NextFiles]_vars

\* The type-check policy over every value of WEBSTIR_BACKEND_TYPECHECK of
\* at most MaxFlagLen characters: one Build call, up to the end of its
\* type-check, with fn the value of the variable in its environment.
MaxFlagLen == 4

FlagChars == {"s", "S", "k", "K", "i", "I", "p", "P", "x"}

FlagValues ==
    {<<>>} \cup { <<str>> : str \in UNION { [1..n -> FlagChars] : n \in 0..MaxFlagLen } }

Policy == [Detailed EXCEPT !.flags = {fn}, !.tscOutput = {FALSE}]

InitPolicy == BuildInit /\ fn \in FlagValues

NextPolicy ==
    \/ \E c \in Calls : Start(c, TRUE, 1)
    \/ \E c \in Calls : TypeCheck(c, Policy)
    \/ \E c \in Calls : TscClose(c, Policy)

SpecPolicy == InitPolicy /\ [][NextPolicy]_vars

(***************************************************************************)
(* The routes of a validated manifest: duplicate detection in the loader   *)
(* and the route keys of the persisted digest.  A path is a sequence of    *)
(* one-character strings.                                                  *)
(***************************************************************************)
MaxRoutes == 4

MaxKeys == 2

\* s.replace(/\/+/, '/'): the first run of separators becomes one.
ReplaceFirstRun(str) ==
    LET slashes == { i \in 1..Len(str) : str[i] = "/" }
    IN IF slashes = {} THEN str
       ELSE LET first == CHOOSE i \in slashes : \A j \in slashes : i <= j
                after == CHOOSE k \in first..Len(str) :
                            /\ \A j \in first..k : str[j] = "/"
                            /\ k = Len(str) \/ str[k + 1] # "/"
            IN SubSeq(str, 1, first) \o SubSeq(str, after + 1, Len(str))

\* The normalization with the trailing separator left in place.
normalizePath_KeepsTrailing(p) ==
    ReplaceFirstRun(IF Len(p) = 0 \/ p[1] # "/" THEN <<"/">> \o p ELSE p)

\* normalizePath(p) of the duplicate detection.
normalizePath(p) ==
    LET led == IF Len(p) = 0 \/ p[1] # "/" THEN <<"/">> \o p ELSE p
        once == ReplaceFirstRun(led)
    IN IF Len(once) > 1 /\ once[Len(once)] = "/"
       THEN SubSeq(once, 1, Len(once) - 1)
       ELSE once

\* `${method} ${pathKey}` of the duplicate detection.
DuplicateKey(route) == <<MethodToUpperCase(route.method), normalizePath(route.path)>>

\* seen: each key with its count, in the order of first occurrence.
Seen(routes) ==
    LET keys == [i \in 1..Len(routes) |-> DuplicateKey(routes[i])]
        count(k) == Cardinality({ i \in 1..Len(keys) : keys[i] = k })
        entries == [i \in 1..Len(keys) |->
                      [key |-> keys[i], count |-> count(keys[i]), at |-> i]]
        IsFirst(e) == \A j \in 1..(e.at - 1) : keys[j] # e.key
        firsts == SelectSeq(entries, IsFirst)
    IN [i \in 1..Len(firsts) |-> <<firsts[i].key, firsts[i].count>>]

\* dups: the entries of seen with a count above one.
Dups(routes) ==
    LET Repeated(e) == e[2] > 1 IN SelectSeq(Seen(routes), Repeated)

\* The warning of the duplicate detection, when there are duplicates.
DuplicateDiagnostics(routes) ==
    IF Len(Dups(routes)) > 0
    THEN << [ severity |-> "warn",
              message  |-> "duplicate route definitions",
              list     |-> Dups(routes) ] >>
    ELSE <<>>

\* The routes manifests declare here.
RouteChoices ==
    { [method |-> "GET",  path |-> <<"/", "a">>],
      [method |-> "GET",  path |-> <<"/", "a", "/">>],
      [method |-> "get",  path |-> <<"a">>],
      [method |-> "POST", path |-> <<"/", "a">>],
      [method |-> "GET",  path |-> <<"/", "a", "/", "b">>],
      [method |-> "GET",  path |-> <<"/", "a", "/", "/", "b">>],
      [method |-> "GET",  path |-> <<"/", "/", "a">>],
      [method |-> "GET",  path |-> <<"/">>] }

RouteLists(max) == UNION { [1..n -> RouteChoices] : n \in 0..max }

InitRoutes ==
    /\ cache = <<>> /\ sessions = <<>> /\ exited = FALSE /\ builds = 0
    /\ call = [c \in Calls |-> IdleCall]
    /\ last = NoBuild
    /\ outputsFile = <<>> /\ digestFile = <<>>
    /\ \E routes \in RouteLists(MaxRoutes) :
          fn = [ routes |-> routes, checked |-> FALSE, diagnostics |-> <<>> ]

\* The duplicate detection of loadBackendModuleManifest.
DetectDuplicates ==
    /\ ~fn.checked
    /\ fn' = [fn EXCEPT !.checked = TRUE,
                        !.diagnostics = Push(@, DuplicateDiagnostics(fn.routes))]
    /\ UNCHANGED <<cache, sessions, exited, outputsFile, digestFile, builds, call, last>>

NextRoutes == DetectDuplicates

SpecRoutes == InitRoutes /\ [][NextRoutes]_vars

\* Two manifests persisted one after the other.
InitDigest ==
    /\ cache = <<>> /\ sessions = <<>> /\ exited = FALSE /\ builds = 0
    /\ call = [c \in Calls |-> IdleCall]
    /\ last = NoBuild
    /\ outputsFile = <<>> /\ digestFile = <<>>
    /\ \E first \in RouteLists(MaxKeys), second \in RouteLists(MaxKeys) :
          fn = [ first |-> first, second |-> second, persisted |-> 0,
                 before |-> <<>>, emitted |-> <<>> ]

\* persistAndDiffManifest of the first manifest, then of the second.
PersistDigest ==
    /\ fn.persisted < 2
    /\ LET routes == IF fn.persisted = 0 THEN fn.first ELSE fn.second
           done == persistAndDiffDigest(digestFile,
                      [routes |-> RouteKeys(routes), views |-> <<>>,
                       capabilities |-> <<>>], FALSE)
       IN /\ digestFile' = done.file
          /\ fn' = [fn EXCEPT !.persisted = @ + 1,
                              !.before = digestFile,
                              !.emitted = done.emitted]
    /\ UNCHANGED <<cache, sessions, exited, outputsFile, builds, call, last>>

NextDigest == PersistDigest

SpecDigest == InitDigest /\ [][NextDigest]_vars

(***************************************************************************)
(* Manifest hydration: loadBackendModuleManifest.  An optional value is    *)
(* <<>> when absent and <<v>> when present; a name or version that is not  *)
(* a string is <<"number", v>>.                                            *)
(***************************************************************************)
MaxCaps == 2

\* `backend-module-${path.basename(workspaceRoot)}` and the default version.
DefaultName == "backend-module-ws"

DefaultVersion == "0.0.0"

\* typeof v === 'string', and additionally v.length > 0.
IsStringValue(v) == Len(v) = 1

IsNonEmptyString(v) == Len(v) = 1 /\ v[1] # ""

\* workspacePackage?.webstir?.module, or absent.
ModuleConfigOf(pkg) == IF pkg = <<>> THEN <<>> ELSE pkg[1].module

\* deriveModuleName(pkg, workspaceRoot).
deriveModuleName(pkg) ==
    IF ModuleConfigOf(pkg) # <<>> /\ IsNonEmptyString(ModuleConfigOf(pkg)[1].name)
    THEN ModuleConfigOf(pkg)[1].name[1]
    ELSE IF pkg # <<>> /\ IsNonEmptyString(pkg[1].name)
    THEN pkg[1].name[1]
    ELSE DefaultName

\* deriveModuleVersion(pkg).
deriveModuleVersion(pkg) ==
    IF ModuleConfigOf(pkg) # <<>> /\ IsNonEmptyString(ModuleConfigOf(pkg)[1].version)
    THEN ModuleConfigOf(pkg)[1].version[1]
    ELSE IF pkg # <<>> /\ IsNonEmptyString(pkg[1].version)
    THEN pkg[1].version[1]
    ELSE DefaultVersion

\* x ?? fallback, over optionals.
OrElse(x, fallback) == IF x # <<>> THEN x[1] ELSE fallback

\* manifestCandidate as built from the package descriptor.
Candidate(pkg) ==
    LET config == ModuleConfigOf(pkg)
        name == IF config # <<>> /\ IsStringValue(config[1].name)
                THEN config[1].name[1] ELSE deriveModuleName(pkg)
        version == IF config # <<>> /\ IsStringValue(config[1].version)
                   THEN config[1].version[1] ELSE deriveModuleVersion(pkg)
    IN [ name         |-> name,
         version      |-> version,
         kind         |-> "backend",
         capabilities |-> IF config = <<>> THEN <<>> ELSE OrElse(config[1].capabilities, <<>>),
         routes       |-> IF config = <<>> THEN <<>> ELSE OrElse(config[1].routes, <<>>),
         views        |-> IF config = <<>> THEN <<>> ELSE OrElse(config[1].views, <<>>),
         jobs         |-> IF config = <<>> THEN <<>> ELSE OrElse(config[1].jobs, <<>>),
         events       |-> <<>>,
         services     |-> <<>> ]

\* Array.from(new Set(list)): the first occurrence of each element.
Distinct(list) ==
    LET at == [i \in 1..Len(list) |-> [value |-> list[i], index |-> i]]
        IsFirst(e) == \A j \in 1..(e.index - 1) : list[j] # e.value
        kept == SelectSeq(at, IsFirst)
    IN [i \in 1..Len(kept) |-> kept[i].value]

\* The two lists one after the other, duplicates kept.
MergedCapabilities_Concat(candidate, definition) == candidate \o definition

\* mergedCapabilities.
MergedCapabilities(candidate, definition) == Distinct(candidate \o definition)

\* The candidate's list followed by the definition's.
MergedList_Both(fromDefinition, fromManifest, fromCandidate) ==
    fromCandidate \o OrElse(fromDefinition, OrElse(fromManifest, <<>>))

\* routesFromDefinition ?? definitionManifest.routes ?? manifestCandidate.routes,
\* and the same for views.
MergedList(fromDefinition, fromManifest, fromCandidate) ==
    OrElse(fromDefinition, OrElse(fromManifest, fromCandidate))

\* A merge in which the candidate's name and version win.
MergedIdentity_CandidateWins(fromManifest, fromCandidate) == fromCandidate

\* { ...manifestCandidate, ...definitionManifest }, for name and version.
MergedIdentity(fromManifest, fromCandidate) == OrElse(fromManifest, fromCandidate)

\* manifestCandidate after the merge of a loaded definition.
Merge(candidate, definition) ==
    LET dm == definition.manifest
    IN [ candidate EXCEPT
           !.name = MergedIdentity(dm.name, @),
           !.version = MergedIdentity(dm.version, @),
           !.capabilities = MergedCapabilities(@, OrElse(dm.capabilities, <<>>)),
           !.routes = MergedList(definition.routes, dm.routes, @),
           !.views = MergedList(definition.views, dm.views, @),
           !.jobs = OrElse(dm.jobs, @) ]

\* A fallback that hands back what failed validation.
Fallback_Candidate(pkg, candidate) == candidate

\* The minimal manifest returned when validation fails.
Fallback(pkg, candidate) ==
    [ name         |-> deriveModuleName(pkg),
      version      |-> deriveModuleVersion(pkg),
      kind         |-> "backend",
      capabilities |-> <<>>,
      routes       |-> <<>>,
      views        |-> <<>>,
      jobs         |-> <<>>,
      events       |-> <<>>,
      services     |-> <<>> ]

\* The inputs of hydration: package descriptors, with and without a
\* module-configuration block, and definitions.
CapabilityLists(chars) == UNION { [1..n -> chars] : n \in 0..MaxCaps }

PackageIdentities ==
    { [name |-> <<>>, version |-> <<>>],
      [name |-> <<"">>, version |-> <<"">>],
      [name |-> <<"@demo/x">>, version |-> <<"1.0.0">>],
      [name |-> <<"@demo/x">>, version |-> <<>>] }

ConfigIdentities ==
    { [name |-> <<>>, version |-> <<>>],
      [name |-> <<"">>, version |-> <<"">>],
      [name |-> <<"@demo/custom">>, version |-> <<"2.0.0">>],
      [name |-> <<"number", "42">>, version |-> <<>>],
      [name |-> <<"@demo/custom">>, version |-> <<>>] }

ModuleConfigs ==
    { [ name         |-> id.name,
        version      |-> id.version,
        capabilities |-> caps,
        routes       |-> routes,
        views        |-> << << "/from-package" >> >>,
        jobs         |-> << << "nightly" >> >> ] :
      id \in ConfigIdentities,
      caps \in { <<>> } \cup { <<list>> : list \in CapabilityLists({"a", "b"}) },
      routes \in { <<>>, << << [method |-> "GET", path |-> <<"/", "a">>] >> >> } }

Packages ==
    { <<>> } \cup
    { << [name |-> id.name, version |-> id.version, module |-> config] >> :
      id \in PackageIdentities,
      config \in { <<>> } \cup { <<c>> : c \in ModuleConfigs } }

DefinitionIdentities ==
    { [name |-> <<>>, version |-> <<>>],
      [name |-> <<"@demo/with-module">>, version |-> <<"9.9.9">>],
      [name |-> <<"">>, version |-> <<>>] }

Definitions ==
    { [ manifest |-> [ name         |-> id.name,
                       version      |-> id.version,
                       capabilities |-> caps,
                       routes       |-> mroutes,
                       views        |-> <<>>,
                       jobs         |-> <<>> ],
        routes   |-> routes,
        views    |-> views ] :
      id \in DefinitionIdentities,
      caps \in { <<>> } \cup { <<list>> : list \in CapabilityLists({"b", "c"}) },
      mroutes \in { <<>>, << << [method |-> "GET", path |-> <<"/", "a", "/">>] >> >> },
      routes \in { <<>>, << <<>> >>,
                   << << [method |-> "POST", path |-> <<"/", "a">>] >> >> },
      views \in { <<>>, << << "/from-definition" >> >> } }

NoManifest ==
    [ name |-> "", version |-> "", kind |-> "", capabilities |-> <<>>,
      routes |-> <<>>, views |-> <<>>, jobs |-> <<>>, events |-> <<>>,
      services |-> <<>> ]

InitHydrate ==
    /\ cache = <<>> /\ sessions = <<>> /\ exited = FALSE /\ builds = 0
    /\ call = [c \in Calls |-> IdleCall]
    /\ last = NoBuild
    /\ outputsFile = <<>> /\ digestFile = <<>>
    /\ \E pkg \in Packages, readable \in BOOLEAN :
          fn = [ stage       |-> "start",
                 file        |-> pkg,        \* package.json as it is on disk
                 readable    |-> readable \/ pkg = <<>>,
                 pkg         |-> <<>>,       \* workspacePackage
                 candidate   |-> NoManifest,
                 definition  |-> <<>>,
                 valid       |-> FALSE,
                 manifest    |-> <<>>,       \* the manifest returned
                 diagnostics |-> <<>> ]

HydrateUnchanged ==
    UNCHANGED <<cache, sessions, exited, outputsFile, digestFile, builds, call, last>>

\* Lines 34-59: read package.json and build the candidate.
ReadPackage ==
    /\ fn.stage = "start"
    /\ LET read == fn.readable /\ fn.file # <<>>
           pkg == IF read THEN fn.file ELSE <<>>
       IN fn' = [fn EXCEPT
                   !.stage = "candidate",
                   !.pkg = pkg,
                   !.candidate = Candidate(pkg),
                   !.diagnostics = IF read THEN @
                                   ELSE Append(@, Diag("warn", "unable to read package.json"))]
    /\ HydrateUnchanged

\* Lines 61-83: load the compiled definition and merge it.
LoadDefinition ==
    /\ fn.stage = "candidate"
    /\ \/ \E definition \in Definitions :
             fn' = [fn EXCEPT !.stage = "merged",
                              !.definition = <<definition>>,
                              !.candidate = Merge(@, definition)]
       \/ \E failed \in BOOLEAN :
             fn' = [fn EXCEPT !.stage = "merged",
                              !.diagnostics =
                                  IF failed
                                  THEN Append(@, Diag("warn", "failed to load module definition"))
                                  ELSE @]
    /\ HydrateUnchanged

\* Lines 85-106: the verdict of the contract's schema, and the fallback.
Validate ==
    /\ fn.stage = "merged"
    /\ \E success \in BOOLEAN :
          fn' = IF success
                THEN [fn EXCEPT !.stage = "validated", !.valid = TRUE]
                ELSE [fn EXCEPT
                        !.stage = "returned",
                        !.manifest = <<Fallback(fn.pkg, fn.candidate)>>,
                        !.diagnostics =
                            Append(@, Diag("error", "module manifest validation failed"))]
    /\ HydrateUnchanged

\* Lines 108-175: the consistency checks and the summary.
ConsistencyChecks ==
    /\ fn.stage = "validated"
    /\ \E built \in BOOLEAN :
          LET manifest == fn.candidate
              noEntries == IF Len(manifest.routes) > 0 /\ ~built
                           THEN <<Diag("warn", "routes but no entry points")>> ELSE <<>>
              counts == IF Len(manifest.jobs) > 0
                        THEN << Diag("info", "manifest jobs"),
                                Diag("warn", "jobs without schedules") >>
                        ELSE <<>>
          IN fn' = [fn EXCEPT
                      !.stage = "returned",
                      !.manifest = <<manifest>>,
                      !.diagnostics = @ \o DuplicateDiagnostics(manifest.routes)
                                        \o noEntries \o counts
                                        \o <<Diag("info", "manifest summary")>>]
    /\ HydrateUnchanged

NextHydrate ==
    \/ ReadPackage
    \/ LoadDefinition
    \/ Validate
    \/ ConsistencyChecks

SpecHydrate == InitHydrate /\ [][NextHydrate]_vars

(***************************************************************************)
(* The build output directory and the artifacts of a Build call.  A file   *)
(* is <<name, extension>>: <<"index", "js.map">> is index.js.map.          *)
(***************************************************************************)
\* shouldEmitPublishSourcemaps(env), with flag = env.WEBSTIR_BACKEND_SOURCEMAPS.
shouldEmitPublishSourcemaps(flag) ==
    /\ IsString(flag)
    /\ ToLowerCase(Trim(flag[1])) \in
          { <<"o", "n">>, <<"t", "r", "u", "e">>, <<"1">>, <<"y", "e", "s">> }

\* The values of WEBSTIR_BACKEND_SOURCEMAPS of the runs.
SourcemapFlags ==
    { <<>>, << <<"o", "n">> >>, << <<" ", "O", "N">> >>, << <<"o", "f", "f">> >> }

\* What esbuild writes for one entry: the .js file, and its map when the
\* sourcemap option is set.
Emitted(names, sourcemap) ==
    { <<n, "js">> : n \in names }
        \cup (IF sourcemap THEN { <<n, "js.map">> : n \in names } ELSE {})

\* The sourcemap option of the bundle and of the module-definition compile.
BundleSourcemap(mode) == mode # "publish"

\* glob('**/*.js'): the files whose name ends in .js.
GlobJs(dir) == { f \in dir : f[2] = "js" }

\* collectArtifacts(buildRoot) of the build provider.
collectArtifacts(dir) == { [path |-> f, type |-> "bundle"] : f \in GlobJs(dir) }

\* What an earlier run may have left in the build output directory.
StaleFiles == { <<"old", "js">>, <<"old", "js.map">>, <<"index", "js.map">> }

\* The entry points a run bundles.
BundledNames == { {}, {"index"}, {"index", "jobs/a/index"} }

InitArtifacts ==
    /\ cache = <<>> /\ sessions = <<>> /\ exited = FALSE /\ builds = 0
    /\ call = [c \in Calls |-> IdleCall]
    /\ last = NoBuild
    /\ outputsFile = <<>> /\ digestFile = <<>>
    /\ \E mode \in Modes, flag \in SourcemapFlags, stale \in SUBSET StaleFiles :
          fn = [ mode      |-> mode,
                 flag      |-> flag,
                 stage     |-> "bundle",
                 dir       |-> stale,      \* the build output directory
                 written   |-> {},         \* history: files this run wrote
                 artifacts |-> {} ]

ArtifactsUnchanged ==
    UNCHANGED <<cache, sessions, exited, outputsFile, digestFile, builds, call, last>>

\* runEsbuild: the bundle of the entry points, skipped when there are none.
BundleEntries ==
    /\ fn.stage = "bundle"
    /\ \E names \in BundledNames :
          LET files == Emitted(names, BundleSourcemap(fn.mode))
          IN fn' = [fn EXCEPT !.stage = "moddef",
                              !.dir = @ \cup files,
                              !.written = @ \cup files]
    /\ ArtifactsUnchanged

\* buildModuleDefinition, when a module-definition source was found.
CompileModuleDefinition ==
    /\ fn.stage = "moddef"
    /\ \E names \in { {}, {"module"} } :
          LET files == Emitted(names, BundleSourcemap(fn.mode))
          IN fn' = [fn EXCEPT !.stage = "artifacts",
                              !.dir = @ \cup files,
                              !.written = @ \cup files]
    /\ ArtifactsUnchanged

\* const artifacts = await collectArtifacts(paths.buildRoot).
Collect ==
    /\ fn.stage = "artifacts"
    /\ fn' = [fn EXCEPT !.stage = "collected",
                        !.artifacts = collectArtifacts(fn.dir)]
    /\ ArtifactsUnchanged

NextArtifacts ==
    \/ BundleEntries
    \/ CompileModuleDefinition
    \/ Collect

SpecArtifacts == InitArtifacts /\ [][NextArtifacts]_vars

(***************************************************************************)
(* The cap on the diagnostics of one bundle result: diagMax from the       *)
(* text of WEBSTIR_BACKEND_DIAG_MAX, and the warnings pushed under it.     *)
(***************************************************************************)
MaxRawLen == 2

MaxWarnings == 3

Digits == <<"0", "1", "2", "3", "4", "5", "6", "7", "8", "9">>

IsDigit(ch) == \E i \in 1..10 : Digits[i] = ch

DigitValue(ch) == (CHOOSE i \in 1..10 : Digits[i] = ch) - 1

RECURSIVE SkipWhiteSpace(_)
SkipWhiteSpace(str) ==
    IF str # <<>> /\ Head(str) = " " THEN SkipWhiteSpace(Tail(str)) ELSE str

RECURSIVE DigitPrefix(_)
\* The digits str starts with.
DigitPrefix(str) ==
    IF str # <<>> /\ IsDigit(Head(str))
    THEN <<Head(str)>> \o DigitPrefix(Tail(str)) ELSE <<>>

RECURSIVE Decimal(_)
Decimal(digits) ==
    IF digits = <<>> THEN 0
    ELSE Decimal(SubSeq(digits, 1, Len(digits) - 1)) * 10
            + DigitValue(digits[Len(digits)])

\* parseInt(str, 10): leading white space is skipped, a sign is read, then
\* the digits up to the first character that is not one.  <<>> is NaN.
parseInt(str) ==
    LET s1     == SkipWhiteSpace(str)
        signed == s1 # <<>> /\ Head(s1) \in {"-", "+"}
        s2     == IF signed THEN Tail(s1) ELSE s1
        digits == DigitPrefix(s2)
    IN IF digits = <<>> THEN <<>>
       ELSE IF signed /\ Head(s1) = "-" THEN << 0 - Decimal(digits) >>
       ELSE << Decimal(digits) >>

\* typeof raw === 'string' ? parseInt(raw, 10) : NaN.
ParsedDiagMax(raw) == IF IsString(raw) THEN parseInt(raw[1]) ELSE <<>>

RawChars == {"0", "1", "2", "-", "x", " "}

\* The values of WEBSTIR_BACKEND_DIAG_MAX: unset, or a text.
RawDiagMax ==
    { <<>> } \cup { <<str>> : str \in UNION { [1..n -> RawChars] : n \in 0..MaxRawLen } }

\* The numbers of warnings of a bundle result: a few, and around the
\* default cap.
WarningCounts ==
    0..MaxWarnings \cup { DefaultDiagMax - 1, DefaultDiagMax, DefaultDiagMax + 1 }

InitWarnings ==
    /\ cache = <<>> /\ sessions = <<>> /\ exited = FALSE /\ builds = 0
    /\ call = [c \in Calls |-> IdleCall]
    /\ last = NoBuild
    /\ outputsFile = <<>> /\ digestFile = <<>>
    /\ \E raw \in RawDiagMax, w \in WarningCounts :
          fn = [ raw         |-> raw,
                 warnings    |-> w,
                 stage       |-> "start",
                 diagMax     |-> 0,
                 diagnostics |-> <<>> ]

\* const diagMax = (() => { ... })().
ComputeDiagMax ==
    /\ fn.stage = "start"
    /\ fn' = [fn EXCEPT !.stage = "bundling",
                        !.diagMax = DiagMaxOf(ParsedDiagMax(fn.raw))]
    /\ UNCHANGED <<cache, sessions, exited, outputsFile, digestFile, builds, call, last>>

\* The bundler settled with a result: its diagnostics are pushed.
ReportResult ==
    /\ fn.stage = "bundling"
    /\ fn' = [fn EXCEPT
                !.stage = "reported",
                !.diagnostics = ResultDiagnostics(
                    [kind |-> "result", errors |-> 0, warnings |-> fn.warnings],
                    fn.diagMax)]
    /\ UNCHANGED <<cache, sessions, exited, outputsFile, digestFile, builds, call, last>>

NextWarnings ==
    \/ ComputeDiagMax
    \/ ReportResult

SpecWarnings == InitWarnings /\ [][NextWarnings]_vars

(***************************************************************************)
(* createEntrySignature on the text of the paths.  A path is a sequence    *)
(* of characters; Array.prototype.sort without a comparator orders strings *)
(* by their UTF-16 code units.                                             *)
(***************************************************************************)
MaxEntries == 2

CodeUnit(ch) ==
    CASE ch = "/" -> 47
      [] ch = "a" -> 97
      [] ch = "b" -> 98
      [] ch = "|" -> 124

RECURSIVE StringLess(_, _)
\* x < y as strings.
StringLess(x, y) ==
    IF y = <<>> THEN FALSE
    ELSE IF x = <<>> THEN TRUE
    ELSE IF Head(x) # Head(y) THEN CodeUnit(Head(x)) < CodeUnit(Head(y))
    ELSE StringLess(Tail(x), Tail(y))

RECURSIVE Join(_, _)
\* Array.prototype.join(separator).
Join(list, separator) ==
    IF list = <<>> THEN <<>>
    ELSE IF Len(list) = 1 THEN list[1]
    ELSE list[1] \o <<separator>> \o Join(Tail(list), separator)

\* The signature of the list in the order it comes in.
createEntrySignatureText_Unsorted(entryPoints) ==
    [ signature |-> Join(entryPoints, "|"), entryPoints |-> entryPoints ]

\* The sort applied to the list itself and not to a copy of it.
createEntrySignatureText_InPlace(entryPoints) ==
    [ signature   |-> Join(SortSeq(entryPoints, StringLess), "|"),
      entryPoints |-> SortSeq(entryPoints, StringLess) ]

\* createEntrySignature: Array.from(entryPoints).sort().join('|'), with
\* what the call leaves in the caller's array.
createEntrySignatureText(entryPoints) ==
    LET copy == entryPoints
    IN [ signature   |-> Join(SortSeq(copy, StringLess), "|"),
         entryPoints |-> entryPoints ]

\* The paths of the entry points: a, b, a/b, ab, b/a.
PathTexts ==
    { <<"a">>, <<"b">>, <<"a", "/", "b">>, <<"a", "b">>, <<"b", "/", "a">> }

PathLists == UNION { [1..n -> PathTexts] : n \in 0..MaxEntries }

InitSignature ==
    /\ cache = <<>> /\ sessions = <<>> /\ exited = FALSE /\ builds = 0
    /\ call = [c \in Calls |-> IdleCall]
    /\ last = NoBuild
    /\ outputsFile = <<>> /\ digestFile = <<>>
    /\ \E first \in PathLists, second \in PathLists :
          fn = [ given      |-> <<first, second>>,   \* history: the lists as passed
                 lists      |-> <<first, second>>,   \* the caller's two arrays
                 signatures |-> <<>> ]

\* The signature of the next of the two lists is computed.
Sign ==
    /\ Len(fn.signatures) < 2
    /\ LET i == Len(fn.signatures) + 1
           r == createEntrySignatureText(fn.lists[i])
       IN fn' = [fn EXCEPT !.lists[i] = r.entryPoints,
                           !.signatures = Append(@, r.signature)]
    /\ UNCHANGED <<cache, sessions, exited, outputsFile, digestFile, builds, call, last>>

NextSignature == Sign

SpecSignature == InitSignature /\ [][NextSignature]_vars

(***************************************************************************)
(* Watch mode (startBackendWatch).  fn is the watch: the bundle watcher    *)
(* ctx, the tsc --watch subprocess tscProc when the type-check is not      *)
(* skipped, and the rebuilds the watcher has finished.  The persisted      *)
(* files are outputsFile and digestFile, as for Build calls.               *)
(***************************************************************************)
MaxRebuilds == 2

\* What a rebuild ends with: its errors, and the outputs of its metafile.
RebuildResults ==
    { [errors |-> e, outputs |-> o] : e \in {0, 1}, o \in OutputMaps }

NoRebuild ==
    [ errors |-> 0 - 1, outputs |-> {}, manifest |-> None,
      before |-> << <<>>, <<>> >>, writeFails |-> <<FALSE, FALSE>> ]

\* An onEnd handler that runs the diffs whatever the rebuild ended with.
onEnd_AlwaysPersists(files, result, manifest, writeFails) ==
    LET outputs == persistAndDiffOutputs(files[1], <<result.outputs>>,
                                         DiagMaxOf(<<>>), writeFails[1])
        digest  == persistAndDiffManifest(files[2], manifest, writeFails[2])
    IN <<outputs.file, digest.file>>

\* build.onEnd: with no errors, reporter.diffOutputs on the outputs of the
\* metafile, then the manifest is hydrated and reporter.diffManifest runs;
\* with errors nothing is persisted.  The two files it leaves.
onEnd(files, result, manifest, writeFails) ==
    IF result.errors = 0
    THEN LET outputs == persistAndDiffOutputs(files[1], <<result.outputs>>,
                                              DiagMaxOf(<<>>), writeFails[1])
             digest  == persistAndDiffManifest(files[2], manifest, writeFails[2])
         IN <<outputs.file, digest.file>>
    ELSE files

\* stop() whose dispose is not in a try block.
stop_DisposeUncaught(w, disposeThrows, killThrows) ==
    IF disposeThrows
    THEN [w EXCEPT !.stage = "stopped",
                   !.ctx = "dispose-threw",
                   !.stopEvents = <<"dispose">>,
                   !.stopResult = "rejected"]
    ELSE [w EXCEPT !.stage = "stopped",
                   !.ctx = "disposed",
                   !.tscProc = IF @ = "running" /\ ~killThrows THEN "signalled" ELSE @,
                   !.stopEvents = <<"dispose">>
                                     \o (IF w.tscProc # None THEN <<"kill">> ELSE <<>>),
                   !.stopResult = "resolved"]

\* stop(): await ctx.dispose() in a try, tscProc?.kill('SIGINT') in a try.
stop(w, disposeThrows, killThrows) ==
    [w EXCEPT !.stage = "stopped",
              !.ctx = IF disposeThrows THEN "dispose-threw" ELSE "disposed",
              !.tscProc = IF @ = "running" /\ ~killThrows THEN "signalled" ELSE @,
              !.stopEvents = <<"dispose">>
                                \o (IF w.tscProc # None THEN <<"kill">> ELSE <<>>),
              !.stopResult = "resolved"]

\* startBackendWatch has returned its handle.
InitWatch ==
    /\ cache = <<>> /\ sessions = <<>> /\ exited = FALSE /\ builds = 0
    /\ call = [c \in Calls |-> IdleCall]
    /\ last = NoBuild
    /\ outputsFile \in { <<>>, << { <<"index.js", 100>> } >> } \cup OtherOutputsContents
    /\ digestFile \in { <<>>, <<Digest("manifest-1")>> } \cup OtherDigestContents
    /\ \E typecheck \in BOOLEAN :
          fn = [ stage      |-> "ready",
                 ctx        |-> "watching",
                 typecheck  |-> typecheck,      \* shouldRunTypecheck
                 tscProc    |-> IF typecheck THEN "running" ELSE None,
                 rebuilds   |-> 0,
                 rebuild    |-> NoRebuild,      \* history: the last rebuild
                 stopEvents |-> <<>>,           \* history: what stop() called
                 stopResult |-> None ]

\* The watcher finished a rebuild and its onEnd handler ran.
Rebuild ==
    /\ fn.ctx # "disposed"
    /\ fn.rebuilds < MaxRebuilds
    /\ \E result \in RebuildResults, manifest \in Manifests,
          writeFails \in BOOLEAN \X BOOLEAN :
          LET files == onEnd(<<outputsFile, digestFile>>, result, manifest, writeFails)
          IN /\ outputsFile' = files[1]
             /\ digestFile' = files[2]
             /\ fn' = [fn EXCEPT
                        !.rebuilds = @ + 1,
                        !.rebuild = [ errors |-> result.errors,
                                      outputs |-> result.outputs,
                                      manifest |-> manifest,
                                      before |-> <<outputsFile, digestFile>>,
                                      writeFails |-> writeFails ]]
    /\ UNCHANGED <<cache, sessions, exited, builds, call, last>>

\* The tsc subprocess ends by itself.
TscExits ==
    /\ fn.tscProc = "running"
    /\ fn' = [fn EXCEPT !.tscProc = "exited"]
    /\ UNCHANGED <<cache, sessions, exited, outputsFile, digestFile, builds, call, last>>

\* handle.stop().
Stop ==
    /\ fn.stage = "ready"
    /\ \E disposeThrows \in BOOLEAN, killThrows \in BOOLEAN :
          fn' = stop(fn, disposeThrows, killThrows)
    /\ UNCHANGED <<cache, sessions, exited, outputsFile, digestFile, builds, call, last>>

NextWatch ==
    \/ Rebuild
    \/ TscExits
    \/ Stop

SpecWatch == InitWatch /\ [][NextWatch]_vars

(***************************************************************************)
(* normalizePath applied to a path and then to its own result.             *)
(***************************************************************************)
MaxPathLen == 4

PathChars == {"/", "a", "b"}

PathInputs == UNION { [1..n -> PathChars] : n \in 0..MaxPathLen }

InitNormalize ==
    /\ cache = <<>> /\ sessions = <<>> /\ exited = FALSE /\ builds = 0
    /\ call = [c \in Calls |-> IdleCall]
    /\ last = NoBuild
    /\ outputsFile = <<>> /\ digestFile = <<>>
    /\ \E p \in PathInputs : fn = [ path |-> p, forms |-> <<>> ]

\* normalizePath on the path.
NormalizeOnce ==
    /\ fn.forms = <<>>
    /\ fn' = [fn EXCEPT !.forms = <<normalizePath(fn.path)>>]
    /\ UNCHANGED <<cache, sessions, exited, outputsFile, digestFile, builds, call, last>>

\* normalizePath on the form it returned.
NormalizeAgain ==
    /\ Len(fn.forms) = 1
    /\ fn' = [fn EXCEPT !.forms = Append(@, normalizePath(fn.forms[1]))]
    /\ UNCHANGED <<cache, sessions, exited, outputsFile, digestFile, builds, call, last>>

NextNormalize ==
    \/ NormalizeOnce
    \/ NormalizeAgain

SpecNormalize == InitNormalize /\ [][NextNormalize]_vars

(***************************************************************************)
(* Properties of the incremental session cache.                            *)
(***************************************************************************)
\* The call has its bundle result: runEsbuild has returned.
Bundled(c) ==
    call[c].pc \in {"moddef", "artifacts", "manifest", "cachediff",
                    "digestdiff", "filter", "done"}

\* The call is an incremental build that found entry points.
IncrementalWithEntries(r) ==
    /\ r.incremental /\ r.mode # "publish" /\ Len(r.entryPoints) > 0

\* Call c follows, on the same key, an incremental build that succeeded,
\* and the process has not exited in between.
FollowsIncremental(c) ==
    /\ ~exited
    /\ last.finished = "done"
    /\ IncrementalWithEntries(last)
    /\ last.mode = call[c].mode /\ last.buildRoot = call[c].buildRoot

SameEntries(r1, r2) ==
    {r1.entryPoints[i] : i \in 1..Len(r1.entryPoints)}
        = {r2.entryPoints[i] : i \in 1..Len(r2.entryPoints)}

\* C1: of two consecutive successful incremental builds on one key, the
\* second rebuilds on the session the first left in the cache, with no
\* dispose and no new session, when the entry set is unchanged; when it
\* changed, the second disposes that session, deletes the key, and only
\* then creates a session, stores it under the key and rebuilds on it.
C1_ReuseOrRecreate ==
    \A c \in Calls :
        (Bundled(c) /\ IncrementalWithEntries(call[c]) /\ FollowsIncremental(c))
        => IF SameEntries(last, call[c])
           THEN /\ call[c].events = << <<"rebuild", last.context>> >>
                /\ call[c].context = last.context
                /\ sessions[last.context] = "live"
                /\ CacheGet(cache, incrementalKey(call[c])).context = last.context
           ELSE /\ call[c].context # last.context
                /\ call[c].events =
                      << <<"dispose", last.context>>, <<"delete", 0>>,
                         <<"create", call[c].context>>, <<"set", call[c].context>>,
                         <<"rebuild", call[c].context>> >>
                /\ sessions[last.context] = "disposed"
                /\ sessions[call[c].context] = "live"
                /\ CacheGet(cache, incrementalKey(call[c])).context = call[c].context

\* Witness of C1: a second build has rebuilt on the first one's session.
C1_Witness ==
    \E c \in Calls :
        /\ Bundled(c) /\ IncrementalWithEntries(call[c]) /\ FollowsIncremental(c)
        /\ SameEntries(last, call[c])
        /\ call[c].reused

\* The other case of C1, reached as well: the entry set changed.
C1_RecreateReached ==
    \E c \in Calls :
        /\ Bundled(c) /\ IncrementalWithEntries(call[c]) /\ FollowsIncremental(c)
        /\ ~SameEntries(last, call[c])

\* C2, as claimed: once an incremental build has cached a session for a
\* key, a later build of the same mode and build root that does not ask
\* for incremental mode has disposed that session and removed it from the
\* cache by the time its one-shot build runs.
C2_OneShotDisposesCached ==
    \A c \in Calls :
        (/\ ~call[c].incremental
         /\ call[c].pc = "esb_build"
         /\ FollowsIncremental(c))
        => /\ ~CacheHas(cache, incrementalKey(call[c]))
           /\ sessions[last.context] = "disposed"

\* C3: the cache never holds an entry under a publish key, and a publish
\* build runs one fresh one-shot bundle: it creates no session, stores
\* none, and calls rebuild on none, whatever its incremental flag.
C3_PublishNeverCached ==
    /\ \A key \in CacheKeys(cache) : key[1] # "publish"
    /\ \A c \in Calls :
          call[c].mode = "publish"
          => /\ call[c].events \in { <<>>, << <<"build", 0>> >> }
             /\ "cache" \notin call[c].wrote
             /\ ~call[c].reused /\ call[c].context = 0
             /\ (Bundled(c) /\ Len(call[c].entryPoints) > 0)
                   => call[c].events = << <<"build", 0>> >>

\* Witness of C3: a publish build that asked for incremental mode has
\* bundled while another key holds a cached session.
C3_Witness ==
    \E c \in Calls :
        /\ call[c].mode = "publish" /\ call[c].incremental
        /\ Bundled(c) /\ Len(call[c].entryPoints) > 0
        /\ cache # <<>>

\* C4: a call runs rebuild on a session that is already disposed only
\* in an overlap with another call on the same key: at that step the other
\* call has called dispose() on the cached session and is still awaiting
\* it, so the key is not deleted yet and the lookup finds the session.
\* Nothing stops that interleaving; the witness reaches it.
C4_RebuildOnDisposedInOverlap ==
    [][\A c \in Calls :
          (~call[c].onDisposed /\ call'[c].onDisposed)
          => /\ call'[c].reused /\ call'[c].pc = "esb_build"
             /\ sessions[call'[c].context] = "disposed"
             /\ \E d \in Calls \ {c} :
                   /\ call[d].pc = "esb_dispose" /\ call[d].deleting
                   /\ useIncremental(call[d])
                   /\ incrementalKey(call[d]) = incrementalKey(call[c])
                   /\ call[d].events[Len(call[d].events)]
                         = <<"dispose", call'[c].context>>]_vars

\* Witness of C4: two incremental calls on one key overlap, and one has
\* called rebuild on the session the other disposed.
C4_Witness ==
    \E c \in Calls : \E d \in Calls \ {c} :
        /\ call[c].onDisposed /\ call[c].pc = "esb_build"
        /\ call[c].events = << <<"rebuild", call[c].context>> >>
        /\ sessions[call[c].context] = "disposed"
        /\ useIncremental(call[d])
        /\ incrementalKey(call[d]) = incrementalKey(call[c])
        /\ <<"dispose", call[c].context>>
              \in {call[d].events[i] : i \in 1..Len(call[d].events)}

\* C5: the exit hook calls dispose() on the session of every entry of the
\* cache and leaves the cache empty; the entries after one whose dispose()
\* throws are disposed and removed all the same.
C5_ExitClearsCache ==
    [][(~exited /\ exited')
       => /\ cache' = <<>>
          /\ \A x \in CacheContexts(cache) :
                sessions'[x] \in {"disposed", "dispose-threw"}
          /\ \A x \in DOMAIN sessions \ CacheContexts(cache) :
                sessions'[x] = sessions[x]]_vars

\* Witness of C5: the hook has run over two entries, the dispose() of the
\* first threw, and the second was disposed by the hook as well.
C5_Witness ==
    /\ exited /\ cache = <<>>
    /\ builds = 2
    /\ sessions = <<"dispose-threw", "disposed">>
    /\ \A c \in Calls :
          /\ call[c].pc # "idle"
          /\ \A i \in 1..Len(call[c].events) : call[c].events[i][1] # "dispose"

(***************************************************************************)
(* Properties of one Build call.                                           *)
(***************************************************************************)
PhaseOrder ==
    <<"type-check", "discovery", "bundle", "artifact-collect",
      "manifest-hydrate", "cache-diff", "filter">>

\* The number of phases a call at pc has started.
PhasesStartedAt(pc) ==
    CASE pc \in {"idle", "tsc"} -> {0}
      [] pc \in {"tsc_wait", "discover"} -> {1}
      [] pc = "bundle" -> {2}
      [] pc \in {"esb_dispose", "esb_create", "esb_build", "moddef", "artifacts"} -> {3}
      [] pc = "manifest" -> {4}
      [] pc = "cachediff" -> {5}
      [] pc \in {"digestdiff", "filter"} -> {6}
      [] pc = "done" -> {7}
      [] pc = "failed" -> {1, 3}

\* C6: the phases of a Build call start in the order type-check, entry
\* discovery, bundle, artifact collection, manifest hydration, cache diff,
\* filter, each one only when the one before it has completed: discovery
\* with the type-check settled, artifact collection with the bundle
\* settled, the cache diff with the manifest hydrated; and the persisted
\* files are written only after the manifest has been hydrated.
C6_PhasesInOrder ==
    \A c \in Calls :
        LET r == call[c]
            n == Len(r.phases)
        IN /\ n <= Len(PhaseOrder)
           /\ r.phases = SubSeq(PhaseOrder, 1, n)
           /\ n \in PhasesStartedAt(r.pc)
           /\ n >= 2 => r.child # "running"
           /\ n >= 4 => /\ r.pc \notin {"esb_dispose", "esb_create", "esb_build"}
                        /\ r.error = None
           /\ n >= 6 => r.manifest # None
           /\ r.wrote \cap {"outputsFile", "digestFile"} # {}
                 => /\ r.manifest # None
                    /\ n >= 6

\* Witness of C6: a call has run all seven phases and written both files.
C6_Witness ==
    \E c \in Calls :
        /\ call[c].pc = "done"
        /\ call[c].phases = PhaseOrder
        /\ call[c].wrote = {"cache", "outputsFile", "digestFile"}

\* C7: when the type-check subprocess exits with a non-zero code, the
\* error diagnostic is appended and the Build call rejects; the call has
\* started no phase after the type-check, has made no session or cache
\* operation and has written neither persisted file, and the step that
\* fails it leaves the cache, the sessions and both files as they are.
C7_TypeCheckFailureAborts ==
    /\ [](\A c \in Calls :
             call[c].child = "exit-nonzero"
             => /\ call[c].pc = "failed"
                /\ call[c].error = "Type checking failed."
                /\ HasDiag(call[c].diagnostics, "error", "type checking failed")
                /\ call[c].phases = <<"type-check">>
                /\ call[c].events = <<>>
                /\ call[c].wrote = {}
                /\ call[c].returned = <<>>)
    /\ [][\A c \in Calls :
             (call[c].child = "running" /\ call'[c].child = "exit-nonzero")
             => UNCHANGED <<cache, sessions, outputsFile, digestFile>>]_vars

\* Witness of C7: the call has failed on its type-check in a process that
\* holds a cached session and a persisted outputs file.
C7_Witness ==
    \E c \in Calls :
        /\ call[c].child = "exit-nonzero" /\ call[c].pc = "failed"
        /\ cache # <<>> /\ sessions = <<"live">>
        /\ outputsFile # <<>> /\ digestFile # <<>>

\* C8: when the tsc binary is not found the warn diagnostic is appended
\* and the type-check counts as passed: the call is at entry discovery or
\* beyond, and if it fails it is the bundle that failed it.
C8_MissingCompilerPasses ==
    \A c \in Calls :
        call[c].child \in {"enoent", "enoent-closed"}
        => /\ HasDiag(call[c].diagnostics, "warn", "tsc not found")
           /\ call[c].pc \notin {"idle", "tsc", "tsc_wait"}
           /\ call[c].error \in {None, "esbuild failed."}
           /\ call[c].pc = "failed" => call[c].error = "esbuild failed."

\* Witness of C8: a call whose compiler was missing has bundled and
\* returned its result.
C8_Witness ==
    \E c \in Calls :
        /\ call[c].child \in {"enoent", "enoent-closed"}
        /\ call[c].pc = "done"
        /\ "bundle" \in {call[c].phases[i] : i \in 1..Len(call[c].phases)}
        /\ call[c].outputs # <<>>

\* The flag is one of the spellings of "skip".
SpellsSkip(flag) ==
    /\ Len(flag) = 1 /\ Len(flag[1]) = 4
    /\ flag[1][1] \in {"s", "S"} /\ flag[1][2] \in {"k", "K"}
    /\ flag[1][3] \in {"i", "I"} /\ flag[1][4] \in {"p", "P"}

\* runTypeCheck was entered: it found no tsconfig or spawned tsc.
TypeCheckRan(r) ==
    \/ r.child # None
    \/ HasDiag(r.diagnostics, "warn", "tsconfig not found")

\* C9: a call past the policy has skipped its type-check exactly when its
\* mode is not publish and the flag spells "skip" in any letter case; in
\* publish mode, and in build or test mode with the flag unset or with any
\* other value, the type-check has run.
C9_SkipPolicy ==
    \A c \in Calls :
        call[c].phases # <<>>
        => LET r == call[c]
               skipped == HasDiag(r.diagnostics, "info", "type-check skipped")
           IN /\ skipped <=> (r.mode # "publish" /\ SpellsSkip(fn))
              /\ skipped <=> ~TypeCheckRan(r)
              /\ skipped => r.pc = "discover"

\* Witness of C9: a build-mode call has skipped on a mixed-case spelling.
C9_Witness ==
    \E c \in Calls :
        /\ call[c].mode = "build"
        /\ fn = << <<"S", "k", "I", "p">> >>
        /\ HasDiag(call[c].diagnostics, "info", "type-check skipped")
        /\ call[c].pc = "discover"

\* The policy's other side reached: publish with the flag spelling skip.
C9_PublishReached ==
    \E c \in Calls :
        /\ call[c].mode = "publish" /\ SpellsSkip(fn)
        /\ call[c].child = "running"

\* C10: when the Build call has rejected with the generic bundle error,
\* the diagnostics derived from the caught error are already in the list:
\* of a compiler failure, one per error and one per warning up to the
\* cap, a line for what the cap left out, and the summary; of any other
\* exception, its message.
C10_DiagnosticsBeforeThrow ==
    \A c \in Calls :
        call[c].error = "esbuild failed."
        => LET r == call[c]
               f == r.failure
               ds == r.diagnostics
           IN /\ r.pc = "failed"
              /\ f.kind \in {"failure", "exception"}
              /\ f.kind = "failure"
                    => /\ CountDiag(ds, "error", "esbuild error")
                             = Min(f.errors, r.diagMax)
                       /\ CountDiag(ds, "warn", "esbuild warning")
                             = Min(f.warnings, r.diagMax)
                       /\ (\E i \in 1..Len(ds) : ds[i].message = "errors omitted")
                             <=> f.errors > r.diagMax
                       /\ (\E i \in 1..Len(ds) : ds[i].message = "warnings omitted")
                             <=> f.warnings > r.diagMax
                       /\ HasDiag(ds, "info", "esbuild failure summary")
              /\ f.kind = "exception"
                    => HasDiag(ds, "error", "exception message")

\* Witness of C10: a call rejected on a compiler failure with errors and
\* warnings, its diagnostics in the list.
C10_Witness ==
    \E c \in Calls :
        /\ call[c].error = "esbuild failed."
        /\ call[c].failure.kind = "failure"
        /\ call[c].failure.errors = 2 /\ call[c].failure.warnings = 2
        /\ call[c].diagMax = DefaultDiagMax

\* The events of a call that are calls of the bundler: esbuild(),
\* esbuildContext() and rebuild().
BundlerCalls(r) ==
    { i \in 1..Len(r.events) : r.events[i][1] \in {"build", "create", "rebuild"} }

\* Discovery has run for the call and found no entry point.
FoundNoEntries(r) ==
    /\ Len(r.phases) >= 2
    /\ r.entryPoints = <<>>

C12_ModuleDefinitionFailureIsNotFatal ==
    \A c \in Calls :
        HasDiag(call[c].diagnostics, "error", "module definition error")
        => /\ call[c].pc \in {"artifacts", "manifest", "cachediff",
                              "digestdiff", "filter", "done"}
           /\ call[c].error = None

\* Witness of C12: a call whose module-definition compile failed has
\* hydrated its manifest and returned.
C12_Witness ==
    \E c \in Calls :
        /\ HasDiag(call[c].diagnostics, "error", "module definition error")
        /\ call[c].pc = "done"
        /\ call[c].phases = PhaseOrder
        /\ call[c].manifest # None

(***************************************************************************)
(* Properties of the cache reporter.  fn.op is the last diff: the file as  *)
(* it was before, the argument, and what the diff pushed to its target.    *)
(***************************************************************************)
\* The last diff was an output diff with a defined outputs map.
OutputDiffRan ==
    /\ fn.op.kind = "outputs"
    /\ fn.op.outputs # <<>>

\* The paths of a set of <<path, size>> pairs.
Paths(map) == { p[1] : p \in map }

\* The last output diff found no prior map: no file, or text that does
\* not parse.
NoPriorMap ==
    \/ fn.op.before = <<>>
    \/ HoldsKind(fn.op.before, "unparseable")

\* C13, as claimed: an output diff that finds the persisted map absent or
\* corrupt emits no diff diagnostic, for any non-empty outputs map.
C13_FirstDiffEmitsNothing ==
    (OutputDiffRan /\ NoPriorMap /\ fn.op.outputs[1] # {})
    => fn.op.emitted = <<>>

\* C13, amended: an output diff that finds the persisted map absent or
\* unparseable treats the prior map as empty, so every path of a non-empty
\* outputs map counts as changed: it emits exactly one diff diagnostic,
\* reporting all the paths changed and none removed.
C13_FirstDiffReportsAll ==
    (OutputDiffRan /\ NoPriorMap /\ fn.op.outputs[1] # {})
    => /\ Len(fn.op.emitted) = 1
       /\ fn.op.emitted[1].severity = "info"
       /\ fn.op.emitted[1].changed = Cardinality(fn.op.outputs[1])
       /\ fn.op.emitted[1].removed = 0

\* Witness of C13: a diff of a two-path map over unparseable text.
C13_Witness ==
    /\ OutputDiffRan
    /\ HoldsKind(fn.op.before, "unparseable")
    /\ Cardinality(fn.op.outputs[1]) = 2
    /\ Len(fn.op.emitted) = 1

\* The new map differs from the prior one in the size of exactly one path.
OneSizeDiffers(prior, new) ==
    /\ Paths(prior) = Paths(new)
    /\ Cardinality(new \ prior) = 1

\* C14: over a persisted map, an output diff whose map differs from it in
\* the size of exactly one path emits exactly one diagnostic, with
\* "changed 1 file", and one whose map is identical emits none, after any
\* sequence of diffs.
C14_DiffOfPersistedMap ==
    (OutputDiffRan /\ IsObject(fn.op.before))
    => /\ OneSizeDiffers(fn.op.before[1], fn.op.outputs[1])
             => /\ Len(fn.op.emitted) = 1
                /\ fn.op.emitted[1].changed = 1
                /\ fn.op.emitted[1].removed = 0
       /\ fn.op.outputs[1] = fn.op.before[1] => fn.op.emitted = <<>>

\* Witness of C14: the third diff repeats the map the second persisted,
\* which differed from the first in one size.
C14_Witness ==
    /\ fn.diffs = 3
    /\ OutputDiffRan
    /\ fn.op.before = << { <<"index.js", 150>> } >>
    /\ fn.op.outputs = fn.op.before
    /\ fn.op.emitted = <<>>
    /\ Len(fn.plain.diagnostics) = 2

\* C14's other case reached: one size differs from the persisted map.
C14_OneSizeReached ==
    /\ fn.diffs >= 2
    /\ OutputDiffRan /\ IsObject(fn.op.before)
    /\ OneSizeDiffers(fn.op.before[1], fn.op.outputs[1])

\* C15: the first diffOutputs of a reporter that logs, on a workspace with
\* no persisted map, reports the outputs as changed: for a map of one
\* path its caller finds one diagnostic with "changed 1 file".
C15_FirstReportIsChanged ==
    (/\ fn.diffs = 1 /\ OutputDiffRan
     /\ fn.op.before = <<>>
     /\ Cardinality(fn.op.outputs[1]) = 1
     /\ fn.log \in { <<>>, << <<>> >>, << <<"o", "n">> >> })
    => /\ Len(fn.diagnostics) = 1
       /\ fn.diagnostics[1].message = "outputs changed"
       /\ fn.diagnostics[1].changed = 1
       /\ fn.diagnostics[1].listed = 1
       /\ fn.diagnostics[1].more = 0

\* Witness of C15: that first diff, made by a reporter of an empty
\* environment.
C15_Witness ==
    /\ fn.diffs = 1 /\ OutputDiffRan
    /\ fn.op.before = <<>>
    /\ fn.log = <<>>
    /\ fn.op.outputs = << { <<"index.js", 100>> } >>
    /\ Len(fn.diagnostics) = 1

\* The paths in both maps with different values, the paths only in the
\* prior map, and the paths only in the new map.
DifferInBoth(prior, new) ==
    { p \in Paths(new) \cap Paths(prior) :
         \E a \in prior, b \in new : a[1] = p /\ b[1] = p /\ a[2] # b[2] }

OnlyPrior(prior, new) == Paths(prior) \ Paths(new)

OnlyNew(prior, new) == Paths(new) \ Paths(prior)

\* What an output diff emits when it counts `changed` changed paths and
\* `removed` removed paths.
Reports(changed, removed) ==
    IF changed \cup removed = {}
    THEN fn.op.emitted = <<>>
    ELSE /\ Len(fn.op.emitted) = 1
         /\ fn.op.emitted[1].changed = Cardinality(changed)
         /\ fn.op.emitted[1].removed = Cardinality(removed)

\* C16, as claimed: the changed paths are the paths in both maps with a
\* different size, the removed paths the paths only in the prior map, and
\* a path only in the new map is in neither.
C16_NewPathsNotChanged ==
    (OutputDiffRan /\ IsObject(fn.op.before))
    => Reports(DifferInBoth(fn.op.before[1], fn.op.outputs[1]),
               OnlyPrior(fn.op.before[1], fn.op.outputs[1]))

\* C16, amended: the changed paths are the paths of the new map whose
\* size differs from the prior one or that the prior map does not have,
\* and the removed paths are the paths only in the prior map.
C16_ChangedAndRemoved ==
    (OutputDiffRan /\ IsObject(fn.op.before))
    => Reports(DifferInBoth(fn.op.before[1], fn.op.outputs[1])
                  \cup OnlyNew(fn.op.before[1], fn.op.outputs[1]),
               OnlyPrior(fn.op.before[1], fn.op.outputs[1]))

\* Witness of C16: a diff over a persisted map in which one path changed
\* its size and one is new; and one in which a path is gone.
C16_Witness ==
    /\ OutputDiffRan /\ IsObject(fn.op.before)
    /\ DifferInBoth(fn.op.before[1], fn.op.outputs[1]) # {}
    /\ OnlyNew(fn.op.before[1], fn.op.outputs[1]) # {}
    /\ fn.op.emitted[1].changed = 2

C16_RemovedReached ==
    /\ OutputDiffRan /\ IsObject(fn.op.before)
    /\ OnlyPrior(fn.op.before[1], fn.op.outputs[1]) # {}
    /\ fn.op.emitted[1].removed = 1

\* C17, as claimed: after an output diff with a defined outputs map whose
\* write does not fail, the persisted map is that map, whatever the file
\* held before: nothing, text that does not parse, or parseable JSON that
\* is not a path-to-size object.
C17_FileIsTheOutputs ==
    (OutputDiffRan /\ ~fn.op.writeFails)
    => outputsFile = fn.op.outputs

\* The states C17 holds in: the prior file did not hold null.
C17_HoldsWithoutNull ==
    (OutputDiffRan /\ ~fn.op.writeFails /\ ~HoldsKind(fn.op.before, "null"))
    => outputsFile = fn.op.outputs

(***************************************************************************)
(* Properties of the persisted files across one Build call, over every     *)
(* content the two files can hold before it.                               *)
(***************************************************************************)
\* A Build call has returned successfully and none of its writes failed.
ReturnedWithWorkingWrites(c) ==
    /\ call[c].pc = "done"
    /\ call[c].error = None
    /\ call[c].writeFailed = {}

\* C18: every Build call that returned successfully has overwritten the
\* output-size map and the manifest digest with the values of that build,
\* builds that found no entry points included.
C18_BothFilesOverwritten ==
    \A c \in Calls :
        ReturnedWithWorkingWrites(c)
        => /\ {"outputsFile", "digestFile"} \subseteq call[c].wrote
           /\ digestFile = <<Digest(call[c].manifest)>>
           /\ call[c].outputs # <<>> => outputsFile = call[c].outputs

\* What the code does keep: a build that bundled, over prior files whose
\* content does not make the diff throw, has overwritten both.
C18_OverwrittenWhenBundled ==
    \A c \in Calls :
        ( /\ ReturnedWithWorkingWrites(c)
          /\ call[c].outputs # <<>>
          /\ ~HoldsKind(outputsFile, "null")
          /\ ~PreviousDigestThrows(digestFile) )
        => /\ outputsFile = call[c].outputs
           /\ digestFile = <<Digest(call[c].manifest)>>

\* A build that found no entry points returned with the prior map in place.
C18_StaleMapReached ==
    \E c \in Calls :
        /\ ReturnedWithWorkingWrites(c)
        /\ call[c].entryPoints = <<>>
        /\ outputsFile = << { <<"index.js", 100>> } >>
        /\ "outputsFile" \notin call[c].wrote

\* The set of values of WEBSTIR_BACKEND_CACHE_LOG here that suppress.
Suppressing == { << <<"o", "f", "f">> >>, << <<" ", "O", "f", "F", " ">> >> }

\* C19: for any sequence of output and manifest diffs, a reporter made
\* with the suppression flag set leaves its caller's list empty and both
\* persisted files as the same sequence leaves them with suppression off.
C19_SuppressionOnlySilences ==
    fn.log \in Suppressing
    => /\ fn.diagnostics = <<>>
       /\ outputsFile = fn.plain.outputsFile
       /\ digestFile = fn.plain.digestFile

\* Witness of C19: three diffs through a suppressing reporter wrote both
\* files, and the same diffs without suppression pushed two diagnostics.
C19_Witness ==
    /\ fn.log = << <<" ", "O", "f", "F", " ">> >>
    /\ fn.diffs = 3
    /\ IsObject(outputsFile) /\ IsObject(digestFile)
    /\ Len(fn.plain.diagnostics) >= 2
    /\ fn.diagnostics = <<>>

(***************************************************************************)
(* Failures of cache I/O inside a Build call.                              *)
(***************************************************************************)
\* The two diagnostics a diff may push.
IsDiffDiagnostic(d) ==
    /\ d.severity = "info"
    /\ d.message \in {"outputs changed", "manifest changed"}

\* The phase after each of the two diffs.
AfterDiff(pc) == IF pc = "cachediff" THEN "digestdiff" ELSE "filter"

\* A diff step of call c went through without a trace of any failure.
SilentDiffStep(c) ==
    LET before == call[c]
        after  == call[c]'
        pushed == SubSeq(after.diagnostics, Len(before.diagnostics) + 1,
                         Len(after.diagnostics))
    IN /\ after.pc = AfterDiff(before.pc)
       /\ after.error = None
       /\ after.manifest = before.manifest
       /\ after.outputs = before.outputs
       /\ after.entryPoints = before.entryPoints
       /\ Len(after.diagnostics) >= Len(before.diagnostics)
       /\ SubSeq(after.diagnostics, 1, Len(before.diagnostics)) = before.diagnostics
       /\ Len(pushed) <= 1
       /\ \A i \in 1..Len(pushed) : IsDiffDiagnostic(pushed[i])

\* C20: whatever the persisted files hold and whether or not the writes
\* fail, each diff of a Build call throws nothing, pushes at most its own
\* diff diagnostic and leaves the call's manifest and outputs as they
\* were; a call that reached the diffs returns without an error.
C20_CacheFailuresAreSilent ==
    /\ [](\A c \in Calls :
            call[c].pc \in {"digestdiff", "filter", "done"} => call[c].error = None)
    /\ [][\A c \in Calls :
            (call[c].pc \in {"cachediff", "digestdiff"} /\ call[c]' # call[c])
            => SilentDiffStep(c)]_vars

\* Witness of C20: a call returned after the write of the output map
\* failed over an unparseable prior map, and the digest diff met a digest
\* it cannot read.
C20_Witness ==
    \E c \in Calls :
        /\ call[c].pc = "done"
        /\ call[c].returned # <<>>
        /\ "outputsFile" \in call[c].writeFailed
        /\ HoldsKind(outputsFile, "unparseable")
        /\ HoldsKind(digestFile, "bad-routes")
        /\ call[c].manifest = "manifest-2"

(***************************************************************************)
(* Properties of the manifest diff of the cache reporter.                  *)
(***************************************************************************)
\* The last diff was a manifest diff.
ManifestDiffRan == fn.op.kind = "manifest"

\* The route keys and view paths of the last manifest diff, before and now.
PriorRouteKeys == Elements(fn.op.before[1].routes)

PriorViewPaths == Elements(fn.op.before[1].views)

RouteKeysNow == Elements(Digest(fn.op.manifest).routes)

ViewPathsNow == Elements(Digest(fn.op.manifest).views)

\* C21: a manifest diff over no prior digest (absent or unparseable
\* file) emits nothing; over a prior digest it emits exactly one info
\* diagnostic carrying the numbers of added and removed route keys and
\* view paths when the sets differ, and nothing when they are equal.
C21_ManifestDiffCounts ==
    ManifestDiffRan
    => /\ (fn.op.before = <<>> \/ HoldsKind(fn.op.before, "unparseable"))
             => fn.op.emitted = <<>>
       /\ IsObject(fn.op.before)
             => IF PriorRouteKeys = RouteKeysNow /\ PriorViewPaths = ViewPathsNow
                THEN fn.op.emitted = <<>>
                ELSE fn.op.emitted =
                        << [ severity      |-> "info",
                             message       |-> "manifest changed",
                             addedRoutes   |-> Cardinality(RouteKeysNow \ PriorRouteKeys),
                             removedRoutes |-> Cardinality(PriorRouteKeys \ RouteKeysNow),
                             addedViews    |-> Cardinality(ViewPathsNow \ PriorViewPaths),
                             removedViews  |-> Cardinality(PriorViewPaths \ ViewPathsNow) ] >>

\* Witness of C21: the digest of a manifest without routes was on disk
\* and the diff of a manifest with one route reported "routes +1/-0".
C21_Witness ==
    /\ ManifestDiffRan
    /\ fn.op.before = <<Digest("manifest-1")>>
    /\ fn.op.manifest = "manifest-2"
    /\ Len(fn.op.emitted) = 1
    /\ fn.op.emitted[1].addedRoutes = 1
    /\ fn.op.emitted[1].removedRoutes = 0

\* A first manifest diff, of a manifest with a route, over no file.
C21_FirstDiffReached ==
    /\ ManifestDiffRan
    /\ fn.op.before = <<>>
    /\ fn.op.manifest = "manifest-2"
    /\ digestFile = <<Digest("manifest-2")>>

(***************************************************************************)
(* Properties of the route keys of the persisted digest: two manifests     *)
(* persisted one after the other.                                          *)
(***************************************************************************)
\* Both manifests are persisted; fn.before is the digest of the first.
BothPersisted == fn.persisted = 2 /\ IsObject(fn.before) /\ IsObject(digestFile)

\* The set of METHOD + normalized-path keys of a list of routes.
NormalizedKeys(routes) == { DuplicateKey(routes[i]) : i \in 1..Len(routes) }

\* C22: two manifests whose routes differ only in declaration order, in
\* duplicates or in a path spelling that normalizes to the same path have
\* the same persisted route keys.
C22_SameRoutesSameKeys ==
    (BothPersisted /\ NormalizedKeys(fn.first) = NormalizedKeys(fn.second))
    => digestFile[1].routes = fn.before[1].routes

\* What the code keeps: the persisted keys are the declared routes, one
\* key each in declaration order, and the diff compares them as sets, so
\* order and duplicates alone never produce a diagnostic.
C22_KeysAsDeclared ==
    BothPersisted
    => /\ Len(digestFile[1].routes) = Len(fn.second)
       /\ \A i \in 1..Len(fn.second) :
             digestFile[1].routes[i][2] = fn.second[i].path
       /\ Elements(RouteKeys(fn.first)) = Elements(RouteKeys(fn.second))
             => fn.emitted = <<>>

\* The routes /a and /a/ of the same method, persisted one after the
\* other, are reported as one route added and one removed.
C22_SpellingReported ==
    /\ BothPersisted
    /\ fn.first = << [method |-> "GET", path |-> <<"/", "a">>] >>
    /\ fn.second = << [method |-> "GET", path |-> <<"/", "a", "/">>] >>
    /\ Len(fn.emitted) = 1
    /\ fn.emitted[1].addedRoutes = 1 /\ fn.emitted[1].removedRoutes = 1

(***************************************************************************)
(* Properties of the duplicate route detection.                            *)
(***************************************************************************)
\* The duplicate warnings among the diagnostics.
DuplicateWarnings ==
    SelectSeq(fn.diagnostics,
              LAMBDA d : d.message = "duplicate route definitions")

\* The number of routes of the manifest with key k.
Occurrences(k) ==
    Cardinality({ i \in 1..Len(fn.routes) : DuplicateKey(fn.routes[i]) = k })

\* Routes i and j have the same method, and path j is path i with one
\* separator appended.
TrailingSlashTwins(i, j) ==
    /\ MethodToUpperCase(fn.routes[i].method) = MethodToUpperCase(fn.routes[j].method)
    /\ fn.routes[j].path = Append(fn.routes[i].path, "/")

\* Key k is listed in warning d.
Listed(d, k) == \E n \in 1..Len(d.list) : d.list[n][1] = k

\* C28: the detection flags every key METHOD + normalized-path that
\* occurs more than once, once per key with its occurrence count; routes
\* of one method declared as /accounts and /accounts/ fall under one key;
\* a manifest with no repeated key produces no duplicate diagnostic.
C28_DuplicatesFlaggedOncePerKey ==
    fn.checked
    => LET repeated == { k \in NormalizedKeys(fn.routes) : Occurrences(k) > 1 }
       IN /\ repeated = {} => Len(DuplicateWarnings) = 0
          /\ repeated # {}
                => /\ Len(DuplicateWarnings) = 1
                   /\ Len(DuplicateWarnings[1].list) = Cardinality(repeated)
                   /\ Elements(DuplicateWarnings[1].list)
                         = { <<k, Occurrences(k)>> : k \in repeated }
          /\ \A i, j \in 1..Len(fn.routes) :
                TrailingSlashTwins(i, j)
                => /\ Len(DuplicateWarnings) = 1
                   /\ DuplicateKey(fn.routes[i]) = DuplicateKey(fn.routes[j])
                   /\ Listed(DuplicateWarnings[1], DuplicateKey(fn.routes[i]))

\* Witness of C28: GET /a and GET /a/ among four routes, flagged as one
\* group of two, next to a second group.
C28_Witness ==
    /\ fn.checked
    /\ Len(fn.routes) = 4
    /\ fn.routes[1] = [method |-> "GET", path |-> <<"/", "a">>]
    /\ fn.routes[2] = [method |-> "GET", path |-> <<"/", "a", "/">>]
    /\ Len(DuplicateWarnings) = 1
    /\ Len(DuplicateWarnings[1].list) = 2
    /\ DuplicateWarnings[1].list[1] = << <<"GET", <<"/", "a">> >>, 2 >>

\* Distinct keys only: the detection pushed nothing.
C28_NoDuplicateReached ==
    /\ fn.checked
    /\ Len(fn.routes) = 3
    /\ Cardinality(NormalizedKeys(fn.routes)) = 3
    /\ fn.diagnostics = <<>>

RECURSIVE Collapse(_)
\* A path with every run of separators collapsed to one.
Collapse(p) ==
    IF Len(p) < 2 THEN p
    ELSE IF p[1] = "/" /\ p[2] = "/" THEN Collapse(Tail(p))
    ELSE <<p[1]>> \o Collapse(Tail(p))

\* C29: two routes of one method whose paths differ only in repeated
\* separators get the same key and are flagged as duplicates.
C29_RepeatedSeparatorsCollapse ==
    fn.checked
    => \A i, j \in 1..Len(fn.routes) :
          ( /\ i # j
            /\ MethodToUpperCase(fn.routes[i].method)
                  = MethodToUpperCase(fn.routes[j].method)
            /\ Collapse(fn.routes[i].path) = Collapse(fn.routes[j].path) )
          => /\ DuplicateKey(fn.routes[i]) = DuplicateKey(fn.routes[j])
             /\ Len(DuplicateWarnings) = 1
             /\ Listed(DuplicateWarnings[1], DuplicateKey(fn.routes[i]))

\* What the code keeps: a run of separators at the start of the path is
\* collapsed, so //a and /a get one key.
C29_LeadingRunCollapses ==
    fn.checked
    => \A i, j \in 1..Len(fn.routes) :
          ( /\ i # j
            /\ MethodToUpperCase(fn.routes[i].method)
                  = MethodToUpperCase(fn.routes[j].method)
            /\ fn.routes[j].path = <<"/">> \o fn.routes[i].path
            /\ Len(fn.routes[i].path) > 0 /\ fn.routes[i].path[1] = "/" )
          => /\ DuplicateKey(fn.routes[i]) = DuplicateKey(fn.routes[j])
             /\ Listed(DuplicateWarnings[1], DuplicateKey(fn.routes[i]))

\* The routes GET /a/b and GET /a//b were checked and nothing was flagged.
C29_MissedReached ==
    /\ fn.checked
    /\ fn.routes = << [method |-> "GET", path |-> <<"/", "a", "/", "b">>],
                      [method |-> "GET", path |-> <<"/", "a", "/", "/", "b">>] >>
    /\ fn.diagnostics = <<>>

(***************************************************************************)
(* Properties of manifest hydration.                                       *)
(***************************************************************************)
\* Hydration returned; the validated manifest, or the fallback.
ReturnedValid == fn.stage = "returned" /\ fn.valid

ReturnedFallback == fn.stage = "returned" /\ ~fn.valid

Hydrated == fn.manifest[1]

DefinitionLoaded == fn.definition # <<>>

\* The number of diagnostics of a severity.
CountSeverity(list, severity) ==
    Cardinality({ i \in 1..Len(list) : list[i].severity = severity })

\* The fallback is always named: its name and version are non-empty for
\* every package descriptor.
C23_FallbackNamed ==
    ReturnedFallback => Hydrated.name # "" /\ Hydrated.version # ""

\* A validated manifest has the name its sources gave it: whether an
\* empty name can be returned is the verdict of the contract's schema on
\* a candidate with an empty name.
C23_EmptyNameValidated ==
    /\ ReturnedValid
    /\ Hydrated.name = ""
    /\ ModuleConfigOf(fn.pkg) # <<>>
    /\ ModuleConfigOf(fn.pkg)[1].name = <<"">>

\* C24: when the merged manifest fails validation, hydration appends
\* exactly one error diagnostic and returns the fallback: name, version
\* and kind populated, and capabilities, routes, views, jobs, events and
\* services empty.
C24_FallbackIsMinimal ==
    ReturnedFallback
    => /\ CountSeverity(fn.diagnostics, "error") = 1
       /\ fn.diagnostics[Len(fn.diagnostics)].severity = "error"
       /\ Hydrated.name # "" /\ Hydrated.version # ""
       /\ Hydrated.kind = "backend"
       /\ Hydrated.capabilities = <<>>
       /\ Hydrated.routes = <<>>
       /\ Hydrated.views = <<>>
       /\ Hydrated.jobs = <<>>
       /\ Hydrated.events = <<>>
       /\ Hydrated.services = <<>>

\* Witness of C24: a candidate with an empty name, capabilities, routes,
\* views and jobs failed validation and the fallback was returned under
\* the package name.
C24_Witness ==
    /\ ReturnedFallback
    /\ fn.candidate.name = ""
    /\ Len(fn.candidate.capabilities) = 2
    /\ Len(fn.candidate.routes) = 1
    /\ Len(fn.candidate.views) = 1
    /\ Len(fn.candidate.jobs) = 1
    /\ Hydrated.name = "@demo/x"
    /\ Hydrated.capabilities = <<>>

\* The capabilities of the candidate before the merge, and of the
\* definition's manifest.
CandidateCapabilities == Candidate(fn.pkg).capabilities

DefinitionCapabilities == OrElse(fn.definition[1].manifest.capabilities, <<>>)

\* C25: with a definition loaded, the merged capabilities are the set
\* union of the candidate's and the definition's: every capability of
\* either appears exactly once, and nothing else appears.
C25_CapabilitiesAreTheUnion ==
    (ReturnedValid /\ DefinitionLoaded)
    => /\ Elements(Hydrated.capabilities)
             = Elements(CandidateCapabilities) \cup Elements(DefinitionCapabilities)
       /\ Len(Hydrated.capabilities) = Cardinality(Elements(Hydrated.capabilities))

\* Witness of C25: ["a","b"] merged with ["b","c"] gave a, b, c.
C25_Witness ==
    /\ ReturnedValid /\ DefinitionLoaded
    /\ CandidateCapabilities = <<"a", "b">>
    /\ DefinitionCapabilities = <<"b", "c">>
    /\ Hydrated.capabilities = <<"a", "b", "c">>

\* C26: with a definition loaded, the merged routes are the definition's
\* routes when the definition has a routes field (its route handlers, or
\* else its manifest's routes) and the candidate's otherwise; the same for
\* views.  The result is one source's list in full.
C26_RoutesAndViewsReplace ==
    (ReturnedValid /\ DefinitionLoaded)
    => LET definition == fn.definition[1]
           candidate == Candidate(fn.pkg)
       IN /\ definition.routes # <<>> => Hydrated.routes = definition.routes[1]
          /\ (definition.routes = <<>> /\ definition.manifest.routes # <<>>)
                => Hydrated.routes = definition.manifest.routes[1]
          /\ (definition.routes = <<>> /\ definition.manifest.routes = <<>>)
                => Hydrated.routes = candidate.routes
          /\ definition.views # <<>> => Hydrated.views = definition.views[1]
          /\ (definition.views = <<>> /\ definition.manifest.views # <<>>)
                => Hydrated.views = definition.manifest.views[1]
          /\ (definition.views = <<>> /\ definition.manifest.views = <<>>)
                => Hydrated.views = candidate.views

\* Witness of C26: the candidate declared GET /a, the definition's manifest
\* GET /a/ and the definition's handlers POST /a, which alone is returned;
\* the views are the definition's.
C26_Witness ==
    /\ ReturnedValid /\ DefinitionLoaded
    /\ Len(Candidate(fn.pkg).routes) = 1
    /\ fn.definition[1].manifest.routes # <<>>
    /\ Hydrated.routes = << [method |-> "POST", path |-> <<"/", "a">>] >>
    /\ Hydrated.views = << "/from-definition" >>

\* The candidate's routes kept: the definition has no routes field.
C26_CandidateKeptReached ==
    /\ ReturnedValid /\ DefinitionLoaded
    /\ fn.definition[1].routes = <<>> /\ fn.definition[1].manifest.routes = <<>>
    /\ Hydrated.routes = << [method |-> "GET", path |-> <<"/", "a">>] >>
    /\ Hydrated.views = << "/from-package" >>

\* The name (or version) by precedence: the definition's manifest, the
\* module-configuration block when it holds a string, the package's when
\* it is a non-empty string, the default.
ByPrecedence(fromDefinition, fromConfig, fromPackage, default) ==
    IF fromDefinition # <<>> THEN fromDefinition[1]
    ELSE IF IsStringValue(fromConfig) THEN fromConfig[1]
    ELSE IF IsNonEmptyString(fromPackage) THEN fromPackage[1]
    ELSE default

\* C27: when validation passes, name and version come from the loaded
\* definition's manifest, else the module-configuration block, else the
\* package name and version, else backend-module-<basename> and 0.0.0;
\* with no block and no definition the capabilities are empty.
C27_IdentityPrecedence ==
    ReturnedValid
    => LET dm == IF DefinitionLoaded THEN fn.definition[1].manifest
                 ELSE [name |-> <<>>, version |-> <<>>]
           config == IF ModuleConfigOf(fn.pkg) # <<>> THEN ModuleConfigOf(fn.pkg)[1]
                     ELSE [name |-> <<>>, version |-> <<>>]
           pkg == IF fn.pkg # <<>> THEN fn.pkg[1] ELSE [name |-> <<>>, version |-> <<>>]
       IN /\ Hydrated.name
                = ByPrecedence(dm.name, config.name, pkg.name, DefaultName)
          /\ Hydrated.version
                = ByPrecedence(dm.version, config.version, pkg.version, DefaultVersion)
          /\ (ModuleConfigOf(fn.pkg) = <<>> /\ ~DefinitionLoaded)
                => Hydrated.capabilities = <<>>

\* Witness of C27: package, block and definition all name the module and
\* the definition's name and version are returned.
C27_Witness ==
    /\ ReturnedValid /\ DefinitionLoaded
    /\ fn.pkg # <<>> /\ ModuleConfigOf(fn.pkg) # <<>>
    /\ fn.pkg[1].name = <<"@demo/x">>
    /\ ModuleConfigOf(fn.pkg)[1].name = <<"@demo/custom">>
    /\ Hydrated.name = "@demo/with-module"
    /\ Hydrated.version = "9.9.9"

\* The package name and version returned: no block, no definition.
C27_PackageReached ==
    /\ ReturnedValid /\ ~DefinitionLoaded
    /\ fn.pkg # <<>> /\ ModuleConfigOf(fn.pkg) = <<>>
    /\ Hydrated.name = "@demo/x" /\ Hydrated.version = "1.0.0"
    /\ Hydrated.capabilities = <<>>

\* The defaults returned: package.json could not be read.
C27_DefaultsReached ==
    /\ ReturnedValid /\ ~DefinitionLoaded
    /\ fn.pkg = <<>>
    /\ Hydrated.name = DefaultName /\ Hydrated.version = DefaultVersion

(***************************************************************************)
(* Properties of the artifacts of a Build call.                            *)
(***************************************************************************)
\* The runs in which source maps are included: every build or test run,
\* and a publish run with the opt-in flag set.
SourceMapsIncluded ==
    fn.mode # "publish" \/ shouldEmitPublishSourcemaps(fn.flag)

\* File f is among the artifacts with the type.
ReturnedAs(f, type) == [path |-> f, type |-> type] \in fn.artifacts

Returned(f) == \E a \in fn.artifacts : a.path = f

\* C30: the .js.map files of the build output are returned as artifacts
\* of type asset exactly in the runs in which source maps were included,
\* and are absent from the artifacts otherwise; every other produced .js
\* file is returned with type bundle.
C30_SourceMapsAreAssets ==
    fn.stage = "collected"
    => /\ \A f \in fn.dir :
             f[2] = "js.map"
             => IF SourceMapsIncluded THEN ReturnedAs(f, "asset") ELSE ~Returned(f)
       /\ \A f \in fn.written : f[2] = "js" => ReturnedAs(f, "bundle")

\* What the code keeps: every .js file of the output directory is returned
\* as a bundle, and nothing else is returned.
C30_OnlyBundles ==
    fn.stage = "collected"
    => /\ \A f \in fn.dir : f[2] = "js" => ReturnedAs(f, "bundle")
       /\ \A a \in fn.artifacts : a.type = "bundle" /\ a.path[2] = "js"

\* A build-mode run wrote index.js and index.js.map and returned index.js
\* alone.
C30_MapLeftOutReached ==
    /\ fn.stage = "collected"
    /\ fn.mode = "build"
    /\ fn.written = { <<"index", "js">>, <<"index", "js.map">> }
    /\ fn.dir = fn.written
    /\ fn.artifacts = { [path |-> <<"index", "js">>, type |-> "bundle"] }

(***************************************************************************)
(* Properties of the diagnostics a Build call returns.                     *)
(***************************************************************************)
\* info < warn < error.
SeverityRank(severity) ==
    CASE severity = "info" -> 1
      [] severity = "warn" -> 2
      [] severity = "error" -> 3

\* The minimum a value of WEBSTIR_BACKEND_LOG_LEVEL asks for.
RequestedMinimum(value) ==
    CASE value = << <<"w", "a", "r", "n">> >> -> "warn"
      [] value = << <<"E", "r", "r", "o", "r">> >> -> "error"
      [] OTHER -> "info"

RECURSIVE AtOrAbove(_, _)
\* The diagnostics of list at or above the rank, in the order of list.
AtOrAbove(list, n) ==
    IF list = <<>> THEN <<>>
    ELSE (IF SeverityRank(Head(list).severity) >= n THEN <<Head(list)>> ELSE <<>>)
             \o AtOrAbove(Tail(list), n)

\* The filter step of call c returned the collected diagnostics at or
\* above the requested minimum and left the collected list as it was.
FilterStep(c) ==
    LET before == call[c]
        after  == call[c]'
    IN /\ after.pc = "done"
       /\ after.diagnostics = before.diagnostics
       /\ after.returned =
             << AtOrAbove(before.diagnostics,
                          SeverityRank(RequestedMinimum(after.logLevel))) >>

\* C31: the diagnostics returned to the caller are exactly the collected
\* diagnostics whose severity rank is at or above the requested minimum
\* (info < warn < error), in their original order; an unrecognized or
\* missing minimum is treated as info and returns all of them; and the
\* cache diffs run on the unfiltered list: nothing is filtered before
\* the filter step, which comes after both diffs.
C31_ReturnedAreAtOrAboveMinimum ==
    /\ [](\A c \in Calls :
            call[c].pc \in {"cachediff", "digestdiff", "filter"}
               => call[c].returned = <<>>)
    /\ [][\A c \in Calls :
            (call[c].pc = "filter" /\ call[c]'.pc # "filter") => FilterStep(c)]_vars

\* Witness of C31: a call asked for warn and above; its collected list
\* holds the info diagnostic of the output diff, the returned list holds
\* a warning and no info diagnostic.
C31_Witness ==
    \E c \in Calls :
        /\ call[c].pc = "done"
        /\ call[c].logLevel = << <<"w", "a", "r", "n">> >>
        /\ \E i \in 1..Len(call[c].diagnostics) :
              IsDiffDiagnostic(call[c].diagnostics[i])
        /\ call[c].returned[1] # <<>>
        /\ \A i \in 1..Len(call[c].returned[1]) :
              call[c].returned[1][i].severity # "info"

\* An unrecognized minimum returned the whole list.
C31_UnrecognizedReached ==
    \E c \in Calls :
        /\ call[c].pc = "done"
        /\ call[c].logLevel = << <<"d", "e", "b", "u", "g">> >>
        /\ call[c].returned = <<call[c].diagnostics>>
        /\ Len(call[c].diagnostics) >= 2

(***************************************************************************)
(* Properties of the cap on bundle diagnostics.                            *)
(***************************************************************************)
\* The text is an integer in decimal digits, and its value.
IsInteger(str) == str # <<>> /\ \A i \in 1..Len(str) : IsDigit(str[i])

RECURSIVE ValueOf(_)
ValueOf(str) ==
    IF Len(str) = 1 THEN DigitValue(str[1])
    ELSE 10 * ValueOf(SubSeq(str, 1, Len(str) - 1)) + DigitValue(str[Len(str)])

\* The text has no number to read: it is empty or blank, or what follows
\* its leading blanks and sign is not a digit.
NonNumeric(str) ==
    \A i \in 1..Len(str) :
        IsDigit(str[i]) => \E j \in 1..(i - 1) : ~IsDigit(str[j]) /\ str[j] # " "
                                                 /\ ~(str[j] = "-" /\ \A k \in 1..(j - 1) : str[k] = " ")

\* The text is a negative integer.
IsNegative(str) == Len(str) >= 2 /\ str[1] = "-" /\ IsInteger(Tail(str))

WarnLines(ds) == { i \in 1..Len(ds) : ds[i] = Diag("warn", "esbuild warning") }

OmittedLines(ds) == { i \in 1..Len(ds) : ds[i].message = "warnings omitted" }

\* C32: for a bundle result with W warnings and cap N, exactly min(W, N)
\* warn diagnostics are appended, and one summary line stating W - N
\* omitted is appended exactly when W > N; N is the configured value when
\* it parses to a positive integer and 50 otherwise (missing, non-numeric,
\* zero or negative).
C32_WarningsAreCapped ==
    fn.stage = "reported"
    => LET W  == fn.warnings
           N  == fn.diagMax
           ds == fn.diagnostics
       IN /\ Cardinality(WarnLines(ds)) = (IF W < N THEN W ELSE N)
          /\ W > N => /\ Cardinality(OmittedLines(ds)) = 1
                      /\ \A i \in OmittedLines(ds) : ds[i].omitted = W - N
          /\ W <= N => OmittedLines(ds) = {}
          /\ (IsString(fn.raw) /\ IsInteger(fn.raw[1]) /\ ValueOf(fn.raw[1]) > 0)
                => N = ValueOf(fn.raw[1])
          /\ ~IsString(fn.raw) => N = 50
          /\ (IsString(fn.raw) /\ NonNumeric(fn.raw[1])) => N = 50
          /\ (IsString(fn.raw) /\ IsInteger(fn.raw[1]) /\ ValueOf(fn.raw[1]) = 0)
                => N = 50
          /\ (IsString(fn.raw) /\ IsNegative(fn.raw[1])) => N = 50
          /\ N = 50 \/ (IsString(fn.raw) /\ parseInt(fn.raw[1]) = <<N>> /\ N > 0)

\* Witness of C32: under a configured cap of 2, three warnings gave two
\* warn diagnostics and the line for the one left out.
C32_Witness ==
    /\ fn.stage = "reported"
    /\ fn.raw = << <<"2">> >>
    /\ fn.warnings = 3
    /\ fn.diagnostics = << Diag("warn", "esbuild warning"),
                           Diag("warn", "esbuild warning"),
                           Omitted("warnings omitted", 1),
                           Diag("info", "esbuild summary") >>

\* Under the default cap, 51 warnings gave 50 warn diagnostics.
C32_DefaultCapReached ==
    /\ fn.stage = "reported"
    /\ fn.raw = << <<"-", "2">> >>
    /\ fn.warnings = DefaultDiagMax + 1
    /\ Cardinality(WarnLines(fn.diagnostics)) = DefaultDiagMax
    /\ Cardinality(OmittedLines(fn.diagnostics)) = 1

(***************************************************************************)
(* Properties of the entry signature.                                      *)
(***************************************************************************)
\* The number of times path occurs in list.
Times(list, path) == Cardinality({ i \in 1..Len(list) : list[i] = path })

\* Two orderings of the same entry points.
SameEntryPoints(x, y) ==
    /\ Len(x) = Len(y)
    /\ \A path \in PathTexts : Times(x, path) = Times(y, path)

\* sorted is list in ascending order.
IsSorted(sorted, list) ==
    /\ SameEntryPoints(sorted, list)
    /\ \A i \in 1..(Len(sorted) - 1) : ~StringLess(sorted[i + 1], sorted[i])

\* C33: the entry signature is the same for every ordering of the same
\* entry points; it is the sorted paths joined by |; and the list passed
\* in is not reordered by computing it.
C33_SignatureIgnoresOrder ==
    Len(fn.signatures) = 2
    => /\ SameEntryPoints(fn.given[1], fn.given[2])
             => fn.signatures[1] = fn.signatures[2]
       /\ \A i \in 1..2 :
             /\ \E sorted \in PathLists :
                   /\ IsSorted(sorted, fn.given[i])
                   /\ fn.signatures[i] = Join(sorted, "|")
             /\ fn.lists[i] = fn.given[i]

\* Witness of C33: b/a, a and a, b/a both gave a|b/a, and the first list
\* is still b/a, a.
C33_Witness ==
    /\ fn.given = << << <<"b", "/", "a">>, <<"a">> >>,
                     << <<"a">>, <<"b", "/", "a">> >> >>
    /\ fn.lists = fn.given
    /\ fn.signatures = << <<"a", "|", "b", "/", "a">>, <<"a", "|", "b", "/", "a">> >>

(***************************************************************************)
(* Properties of watch mode.                                               *)
(***************************************************************************)
\* C34: stopping a watch handle disposes the bundle watcher and then sends
\* a termination signal to the type-check subprocess when one was started;
\* a failure while disposing the watcher does not prevent the signal from
\* being sent, and stop() completes without throwing.
C34_StopDisposesThenSignals ==
    fn.stage = "stopped"
    => /\ fn.stopResult = "resolved"
       /\ fn.ctx \in {"disposed", "dispose-threw"}
       /\ fn.stopEvents = (IF fn.typecheck THEN <<"dispose", "kill">> ELSE <<"dispose">>)

\* Witness of C34: the dispose threw, the subprocess was signalled and
\* stop() resolved.
C34_Witness ==
    /\ fn.stage = "stopped"
    /\ fn.ctx = "dispose-threw"
    /\ fn.tscProc = "signalled"
    /\ fn.stopEvents = <<"dispose", "kill">>
    /\ fn.stopResult = "resolved"

\* A rebuild has ended and none of the writes of its handler failed.
RebuildEnded == fn.rebuild.errors >= 0 /\ fn.rebuild.writeFails = <<FALSE, FALSE>>

\* C35: in watch mode every rebuild that ends with zero errors writes the
\* output-size map and the manifest digest, as the diffs of a Build call
\* do, and a rebuild that ends with one or more errors leaves both
\* persisted files unchanged.
C35_WatchRebuildPersists ==
    RebuildEnded
    => IF fn.rebuild.errors = 0
       THEN /\ outputsFile = <<fn.rebuild.outputs>>
            /\ digestFile = <<Digest(fn.rebuild.manifest)>>
       ELSE <<outputsFile, digestFile>> = fn.rebuild.before

\* What the code keeps: the files are written over prior files whose
\* content does not make the diff throw, and a rebuild with errors leaves
\* both as they were.
C35_PersistsOverReadableFiles ==
    RebuildEnded
    => IF fn.rebuild.errors = 0
       THEN /\ ~PreviousIsNull(fn.rebuild.before[1])
               => outputsFile = <<fn.rebuild.outputs>>
            /\ ~PreviousDigestThrows(fn.rebuild.before[2])
               => digestFile = <<Digest(fn.rebuild.manifest)>>
       ELSE <<outputsFile, digestFile>> = fn.rebuild.before

\* A rebuild without errors and with working writes left the null of the
\* prior output map in place.
C35_NullKeptReached ==
    /\ RebuildEnded
    /\ fn.rebuild.errors = 0
    /\ HoldsKind(fn.rebuild.before[1], "null")
    /\ HoldsKind(outputsFile, "null")
    /\ digestFile = <<Digest(fn.rebuild.manifest)>>

(***************************************************************************)
(* Properties of the sessions of the incremental cache over their whole    *)
(* life.                                                                   *)
(***************************************************************************)
\* The entries of the cache that hold session x.
EntriesOf(x) == { i \in 1..Len(cache) : cache[i].context = x }

\* dispose() has been called on session x.
DisposeWasCalled(x) == sessions[x] # "live"

\* A session created in this step is stored under the key of the call
\* that created it, and no entry is made or re-keyed for an older session.
StoredUnderOwnKey ==
    /\ \A x \in DOMAIN sessions' :
          x \notin DOMAIN sessions
          => \E c \in Calls :
                /\ call[c].pc = "esb_create"
                /\ call[c]'.context = x
                /\ CacheGet(cache', incrementalKey(call[c])).context = x
    /\ \A i \in 1..Len(cache') :
          cache'[i].context \in DOMAIN sessions
          => \E j \in 1..Len(cache) : cache[j] = cache'[i]

\* C36: when Build calls do not overlap, every bundle session ever created
\* is at every moment either the session of the cache entry stored under
\* its own (mode, buildRoot) key or one on which dispose() has been called;
\* the cache holds at most one entry per key; no session leaves the cache
\* without dispose() having been called on it.
C36_SessionsCachedOrDisposed ==
    /\ [](/\ \A x \in DOMAIN sessions :
                \/ Cardinality(EntriesOf(x)) = 1
                \/ DisposeWasCalled(x) /\ Cardinality(EntriesOf(x)) <= 1
          /\ \A i, j \in 1..Len(cache) : cache[i].key = cache[j].key => i = j)
    /\ [][StoredUnderOwnKey]_vars

\* Witness of C36: the first session was disposed and dropped, the second
\* is live in the cache under a key.
C36_Witness ==
    /\ Len(sessions) = 2
    /\ sessions[1] = "disposed" /\ EntriesOf(1) = {}
    /\ sessions[2] = "live" /\ Cardinality(EntriesOf(2)) = 1
    /\ \A c \in Calls : call[c].pc = "idle"

\* Call c finds no entry under its key and goes on to create a session.
FindsNoEntry(c) ==
    /\ call[c].pc = "bundle"
    /\ useIncremental(call[c])
    /\ Len(call[c].entryPoints) > 0
    /\ ~CacheHas(cache, incrementalKey(call[c]))

\* Call c stores its new session.
StoresSession(c) == call[c].pc = "esb_create" /\ call[c]'.pc = "esb_build"

\* C37: when two incremental Build calls on the same key overlap and both
\* find no cached entry, both create a session, and the later cache write
\* replaces the earlier session without disposing it: the earlier one is
\* left live and out of the cache.
C37_LaterWriteReplacesEarlier ==
    [][\A c \in Calls :
          /\ (FindsNoEntry(c) /\ call[c]' # call[c]) => call[c]'.pc = "esb_create"
          /\ StoresSession(c)
             => LET key == incrementalKey(call[c])
                    new == call[c]'.context
                IN /\ new \notin DOMAIN sessions
                   /\ sessions'[new] = "live"
                   /\ CacheGet(cache', key).context = new
                   /\ CacheHas(cache, key)
                      => LET old == CacheGet(cache, key).context
                         IN /\ sessions'[old] = sessions[old]
                            /\ \A i \in 1..Len(cache') : cache'[i].context # old]_vars

\* Witness of C37: two calls on one key have each created a session; the
\* first is live and is neither in the cache nor disposed.
C37_Witness ==
    /\ Len(sessions) = 2
    /\ sessions = <<"live", "live">>
    /\ \A i \in 1..Len(cache) : cache[i].context # 1
    /\ \E i \in 1..Len(cache) : cache[i].context = 2
    /\ \A c \in Calls : /\ call[c].pc = "esb_build"
                        /\ incrementalKey(call[c]) = incrementalKey(call["a"])
                        /\ call[c].context \in {1, 2}

(***************************************************************************)
(* Properties of the type-check subprocess after its promise has settled.  *)
(***************************************************************************)
\* The type-check of call c was settled by the 'error' event of a tsc
\* binary that was not found.
SettledAsMissing(c) == call[c].child \in {"enoent", "enoent-closed"}

TypeCheckErrors(ds) ==
    { i \in 1..Len(ds) : ds[i] = Diag("error", "type checking failed") }

\* C38: the type-check phase settles exactly once per Build call and
\* appends no diagnostic after it has settled: when the subprocess reports
\* that the binary was not found and a close event with a non-zero code
\* follows, the close event adds no error diagnostic to the build that was
\* already treated as passing.
C38_NoDiagnosticAfterSettling ==
    /\ [](\A c \in Calls :
            SettledAsMissing(c) => TypeCheckErrors(call[c].diagnostics) = {})
    /\ [][\A c \in Calls :
            (call[c].pc \notin {"idle", "tsc", "tsc_wait"} /\ call[c]'.pc # "idle")
            => TypeCheckErrors(call[c]'.diagnostics)
                  = TypeCheckErrors(call[c].diagnostics)]_vars

\* What the code keeps: the close event after the settling changes
\* neither where the call is nor how it ends.
C38_SettlesOnce ==
    [][\A c \in Calls :
          (call[c].child = "enoent" /\ call[c]'.child = "enoent-closed")
          => /\ call[c]'.pc = call[c].pc
             /\ call[c]'.error = call[c].error
             /\ call[c]'.phases = call[c].phases]_vars

\* A call whose compiler was missing returned successfully with the error
\* diagnostic of the close event in its list.
C38_ErrorOnPassedBuildReached ==
    \E c \in Calls :
        /\ call[c].child = "enoent-closed"
        /\ call[c].pc = "done"
        /\ call[c].error = None
        /\ HasDiag(call[c].diagnostics, "warn", "tsc not found")
        /\ TypeCheckErrors(call[c].diagnostics) # {}

(***************************************************************************)
(* Properties of a failed incremental bundle.                              *)
(***************************************************************************)
\* Call c throws the build-failed error of an incremental build in this
\* step.
ThrowsBuildFailed(c) ==
    /\ call[c].pc # "failed"
    /\ call[c]'.pc = "failed"
    /\ call[c]'.error = "esbuild failed."
    /\ HasIncrementalKey(call[c])

\* Call c starts a rebuild on the session cached under its key.
ReusesSession(c) ==
    /\ call[c].pc = "bundle"
    /\ call[c]'.pc = "esb_build"
    /\ call[c]'.reused

\* C39: when the bundle step of an incremental build fails, on a reused or
\* on a newly created session, the cache entry of its key is disposed and
\* removed before the build-failed error is thrown, so the next
\* incremental build for that key creates a fresh session instead of
\* reusing the failed one: a session a build is started on has had no
\* dispose() call.  The builds are consecutive: the next one starts when
\* the failed one has thrown.
C39_FailedSessionIsDropped ==
    [][\A c \in Calls :
          /\ ThrowsBuildFailed(c)
             => /\ ~CacheHas(cache', incrementalKey(call[c]))
                /\ call[c].context # 0
                   => /\ sessions'[call[c].context] # "live"
                      /\ \A i \in 1..Len(cache') :
                            cache'[i].context # call[c].context
          /\ ReusesSession(c) => sessions[call[c]'.context] = "live"]_vars

\* Witness of C39: the build before failed on the first session, which is
\* disposed and out of the cache; this build runs on a fresh one.
C39_Witness ==
    \E c \in Calls :
        /\ last.finished = "failed" /\ last.incremental /\ last.context = 1
        /\ sessions = <<"disposed", "live">>
        /\ call[c].pc = "esb_build"
        /\ ~call[c].reused
        /\ call[c].context = 2
        /\ incrementalKey(call[c]) = createIncrementalKey(last.mode, last.buildRoot)
        /\ CacheGet(cache, incrementalKey(call[c])).context = 2

(***************************************************************************)
(* Properties of the route-path normalization applied twice.               *)
(***************************************************************************)
\* C40: route-path normalization is idempotent: for every path p,
\* normalizing the normalized form of p returns it unchanged.
C40_NormalizationIsIdempotent ==
    Len(fn.forms) = 2 => fn.forms[2] = fn.forms[1]

\* The path has a run of separators after its leading one.
HasLaterRun(p) ==
    \E i \in 2..(Len(p) - 1) :
        /\ p[i] = "/" /\ p[i + 1] = "/"
        /\ \E j \in 1..(i - 1) : p[j] # "/"

\* What the code keeps: normalizing again changes nothing for a path
\* without a run of separators after its leading one.
C40_IdempotentWithoutLaterRun ==
    (Len(fn.forms) = 2 /\ ~HasLaterRun(fn.path)) => fn.forms[2] = fn.forms[1]

\* /a// was normalized to /a/ and then to /a.
C40_SecondPassReached ==
    /\ fn.path = <<"/", "a", "/", "/">>
    /\ fn.forms = << <<"/", "a", "/">>, <<"/", "a">> >>

=============================================================================
